---- MODULE Spec2Model ----
(***************************************************************************)
(* Syncthing TS: a read-only Block Exchange Protocol client.               *)
(*                                                                         *)
(* The module models the orchestrator (Syncthing), the transport           *)
(* (Communication over PeerSocket), the block rows of the catalog store,   *)
(* the block cache and the block request scheduler (Request).              *)
(*                                                                         *)
(*   Spec         the client as a whole: connect, TLS authentication,      *)
(*                Hello / ClusterConfig handshake, peer frames, user reads *)
(*                and the scheduler as the orchestrator drives it.         *)
(*   SpecRequest  the Request object driven through add, remove, received  *)
(*                and its timers, its send callback bound to an open       *)
(*                transport.                                               *)
(*   SpecWait     the Request object driven through wait, add, received    *)
(*                and its timers.                                          *)
(***************************************************************************)
EXTENDS Integers, Sequences, FiniteSets, TLC

VARIABLES
    \* ---- Request (scheduler) ----
    requests,      \* Request.requests: the queue, a sequence of object ids
    heap,          \* the QueuedBlock objects that are queued or own a pending timer
    id,            \* Request.id
    totalActive,   \* Request.totalActive
    waits,         \* the promises made by Request.wait, in order of creation
    \* ---- PeerSocket / Communication ----
    sock,          \* PeerSocket.socket: "none", "connecting", "open", "closed"
    peerId,        \* PeerSocket.peerId: the expected DeviceId
    connectedPeerId, \* the DeviceId recomputed from the peer's certificate
    auth,          \* outcome of the secureConnect handler: "pending", "ok", "failed"
    helloSent,     \* Communication.sendHello has run
    pingTimer,     \* Communication.pingTimer is armed
    relay,         \* PeerSocket.connect on a relay: URL its step, the session socket, the reply
    framer,        \* Communication.message and the bytes of the peer still to arrive
    decoding,      \* the last wire Index given to Communication.decodeMessage, and its result
    wire,          \* number of frames of each kind written to the socket
    \* ---- Syncthing (orchestrator) ----
    dispatched,    \* number of calls processPeerMessage made into the store and the scheduler
    events,        \* events emitted by Syncthing: set of names
    reads,         \* the read() calls, in order of invocation
    writing,       \* File.writeBlock calls in flight (RESPONSE handler suspended on them)
    \* ---- Database / block cache ----
    folderRow,     \* the folder row exists
    selfRow,       \* the device row of this client exists for the folder
    peerRow,       \* the device row of the peer exists for the folder
    blocks,        \* block rows of each file, ordered by offset
    cache,         \* cache files: (fileId, offset) -> bytes or NoFile
    \* ---- Database, table by table (SpecStore) ----
    store,         \* the rows of the tables folder, device, directory, file and block
    call           \* how the last store call ended: "done", "refused" (threw before its
                   \* first statement) or "rolled back" (threw after one)

connVars  == <<sock, peerId, connectedPeerId, auth, helloSent, pingTimer, relay, framer, decoding>>
orchVars  == <<dispatched, events, reads, writing>>
dbVars    == <<folderRow, selfRow, peerRow, blocks, cache, store, call>>
vars == <<requests, heap, id, totalActive, waits,
          sock, peerId, connectedPeerId, auth, helloSent, pingTimer, relay, framer, decoding, wire,
          dispatched, events, reads, writing,
          folderRow, selfRow, peerRow, blocks, cache, store, call>>

----------------------------------------------------------------------------
(* Bounds of the model *)

NumFiles   == 2     \* files of the folder
NumBlocks  == 2     \* blocks of the largest file
NumDevices == 2     \* distinct certificates (DeviceIds)
PeerDevice == 1     \* the device whose id string is given to connect()
MaxId      == 6     \* request ids are assigned up to this value
MaxWaits   == 2     \* promises created by Request.wait
MaxReads   == 1     \* calls of Syncthing.read
MaxFrames  == 3     \* frames of the peer that reach the store or the scheduler
Concurrent == 2     \* the `concurrent` argument of new Request(...)
Retries    == 1     \* the `retries` argument of new Request(...)
BlockSize  == 2     \* bytes of a block, where reads are followed byte by byte
MaxStored  == 3     \* block rows a file has, and blocks a file entry carries
MaxEntries == 3     \* entries of a wire Index
MaxSent    == 2     \* frames the peer sends after its Hello
MaxCode    == 4     \* the largest code a relay puts in a Response
MaxSequence == 2    \* index updates stop once the self maxSequenceInternal reaches it

(* Program constants *)

background == 0
user       == 1

----------------------------------------------------------------------------
(* Bytes, hashes, block rows *)

Data   == {"d1", "d2"}
Hashes == {"h1", "h2"}
NoFile == "nofile"

\* crypto.createHash('sha256').update(data).digest()
SHA256(data) == IF data = "d1" THEN "h1" ELSE IF data = "d2" THEN "h2" ELSE "h0"

Files   == 1..NumFiles
Offsets == 0..(NumBlocks - 1)
CacheOffsets == 0..(NumBlocks * BlockSize - 1)
Folder  == "F"

\* file f holds FileBlocks(f) blocks of size 1 at offsets 0, 1, ...
FileBlocks(f) == IF NumBlocks - f + 1 > 1 THEN NumBlocks - f + 1 ELSE 1

\* the path of a file inside its folder, as join(splitPath.dir, splitPath.file) gives it
FileName(f) == <<"/", f>>

Row(o, h, c) == [offset |-> o, size |-> 1, hash |-> h, cached |-> c]

\* Database.blocksToSatisfyRead: the BlockRequest built from one block row
BlockRequestOf(f, row) ==
    [id |-> 0, fileId |-> f, folder |-> Folder, name |-> FileName(f),
     block |-> [offset |-> row.offset, size |-> row.size, hash |-> row.hash, cached |-> row.cached]]

\* File.path(cachePath, folder, fileId, offset)
CachePath(br) == [fileId |-> br.fileId, offset |-> br.block.offset]

\* the frames Communication writes and the calls processPeerMessage makes are counted per kind
Count(c, kind) == [c EXCEPT ![kind] = c[kind] + 1]

----------------------------------------------------------------------------
(* Request: the scheduler.  Its methods are operators on a record S holding *)
(* the fields they read and write; `threw` tells that an exception left     *)
(* the method.                                                              *)

Sched == [requests |-> requests, heap |-> heap, id |-> id, totalActive |-> totalActive,
          waits |-> waits, wire |-> wire, threw |-> FALSE]

\* objects that are neither queued nor referenced by a pending timer are unreachable
Collect(S) ==
    LET live == {S.requests[i] : i \in 1..Len(S.requests)}
                  \cup {o \in DOMAIN S.heap : S.heap[o].timeout}
    IN [S EXCEPT !.heap = [o \in live |-> S.heap[o]]]

NewObject(h) == CHOOSE o \in 1..(Cardinality(DOMAIN h) + 1) :
                    o \notin DOMAIN h /\ \A p \in 1..(o - 1) : p \in DOMAIN h

\* Request.incrementId (the wrap at Number.MAX_SAFE_INTEGER - 1 lies beyond MaxId)
incrementId(i) == i + 1

\* a callback built by Request.wait settles its promise; a settled promise stays as it is
Settle(w, cb, outcome) ==
    IF cb # 0 /\ w[cb].outcome = "pending" THEN [w EXCEPT ![cb].outcome = outcome] ELSE w

\* Array.prototype.splice(index, 1): nothing is removed when index is past the end
dequeue(q, index) ==
    IF index + 1 > Len(q) THEN q
    ELSE SubSeq(q, 1, index) \o SubSeq(q, index + 2, Len(q))

\* this.requests.sort((a, b) => a.priority - b.priority): stable, ascending
RECURSIVE InsertSorted(_, _, _)
InsertSorted(q, o, h) ==
    IF q = <<>> THEN <<o>>
    ELSE IF h[Head(q)].priority > h[o].priority THEN <<o>> \o q
    ELSE <<Head(q)>> \o InsertSorted(Tail(q), o, h)

RECURSIVE SortByPriority(_, _)
SortByPriority(q, h) ==
    IF q = <<>> THEN <<>>
    ELSE InsertSorted(SortByPriority(SubSeq(q, 1, Len(q) - 1), h), q[Len(q)], h)

\* the send callback: Communication.requestBlock -> sendMessage -> PeerSocket.write.
\* Before connect() there is no socket and no protocol: the call throws.
SendThrows == sock = "none"
Transmit(w, kind) == IF sock \in {"connecting", "open"} THEN Count(w, kind) ELSE w

\* the for loop of Request.process, from position i (1-based here, i - 1 in the code)
RECURSIVE processLoop(_, _)
processLoop(S, i) ==
    IF i > Len(S.requests) THEN S
    ELSE LET o == S.requests[i]
             r == S.heap[o]
             n == incrementId(S.id)
         IN IF r.active THEN processLoop(S, i + 1)
            ELSE IF SendThrows
            THEN [S EXCEPT !.id = n,
                           !.heap[o] = [r EXCEPT !.active = TRUE, !.blockRequest.id = n],
                           !.threw = TRUE]
            ELSE LET S2 == [S EXCEPT !.id = n,
                                     !.heap[o] = [r EXCEPT !.active = TRUE,
                                                           !.blockRequest.id = n,
                                                           !.timeout = TRUE,
                                                           !.index = i - 1],
                                     !.wire = Transmit(S.wire, "Request"),
                                     !.totalActive = S.totalActive + 1]
                 IN IF S2.totalActive >= Concurrent THEN S2 ELSE processLoop(S2, i + 1)

\* Request.process
process(S) ==
    IF Len(S.requests) = 0 \/ S.totalActive >= Concurrent THEN S
    ELSE processLoop([S EXCEPT !.requests = SortByPriority(S.requests, S.heap)], 1)

\* a comparison that finds no queued request
NeverSameBlock(a, b) == FALSE

\* the comparison of Request.add: same file, same offset
SameBlock(a, b) == a.fileId = b.fileId /\ a.block.offset = b.block.offset

\* Request.add
add(S, blockRequest, priority, callback) ==
    LET hits == {i \in 1..Len(S.requests) :
                    SameBlock(S.heap[S.requests[i]].blockRequest, blockRequest)}
    IN IF hits # {}
       THEN LET i == CHOOSE j \in hits : \A l \in hits : j <= l
            IN [S EXCEPT !.heap[S.requests[i]].priority = priority]
       ELSE LET o == NewObject(S.heap)
                request == [active |-> FALSE, priority |-> priority, retries |-> 0,
                            timeout |-> FALSE, index |-> 0, callback |-> callback,
                            blockRequest |-> blockRequest]
            IN process([S EXCEPT !.heap = [p \in DOMAIN S.heap \cup {o} |->
                                              IF p = o THEN request ELSE S.heap[p]],
                                 !.requests = Append(S.requests, o)])

\* Request.wait: the promise is created, add runs inside its executor; an
\* exception thrown by the executor rejects the promise
wait(S, blockRequest, priority) ==
    LET w  == Len(S.waits) + 1
        S1 == [S EXCEPT !.waits = Append(S.waits, [req |-> blockRequest, outcome |-> "pending"])]
        S2 == add(S1, blockRequest, priority, w)
    IN IF S2.threw THEN [S2 EXCEPT !.waits = Settle(S2.waits, w, "threw")] ELSE S2

\* the callback given to setTimeout in Request.process, for object o
timeoutFires(S, o) ==
    LET r  == S.heap[o]
        S1 == IF r.retries < Retries
              THEN [S EXCEPT !.heap[o] = [r EXCEPT !.blockRequest.id = 0,
                                                   !.active = FALSE,
                                                   !.retries = r.retries + 1,
                                                   !.timeout = FALSE]]
              ELSE [S EXCEPT !.heap[o].timeout = FALSE,
                             !.waits = Settle(S.waits, r.callback, "timeout"),
                             !.requests = dequeue(S.requests, r.index)]
    IN Collect(process([S1 EXCEPT !.totalActive = S1.totalActive - 1]))

\* a received() that accepts any bytes
HashUnchecked(data, blockRequest) == TRUE

\* the comparison of Request.received: the digest of the bytes against the request's hash
HashEquals(data, blockRequest) == SHA256(data) = blockRequest.block.hash

\* Request.received; `returned` holds the BlockRequest it returns (<<>>: null)
received(S, rid, data) ==
    LET hits == {i \in 1..Len(S.requests) :
                    S.heap[S.requests[i]].blockRequest.id = rid /\ S.heap[S.requests[i]].active}
    IN IF hits = {} THEN [sched |-> S, returned |-> <<>>]
       ELSE LET i  == CHOOSE j \in hits : \A l \in hits : j <= l
                o  == S.requests[i]
                request == S.heap[o]
                S1 == [S EXCEPT !.heap[o].timeout = FALSE,
                                !.requests = dequeue(S.requests, i - 1),
                                !.totalActive = S.totalActive - 1]
                S2 == process(S1)
            IN IF HashEquals(data, request.blockRequest)
               THEN [sched |-> Collect([S2 EXCEPT !.waits = Settle(S2.waits, request.callback, data)]),
                     returned |-> <<request.blockRequest>>]
               ELSE [sched |-> Collect(S2), returned |-> <<>>]

\* the RESPONSE case of Syncthing.processPeerMessage, as far as the scheduler goes: a
\* response with an error code is logged and the handler returns
processResponse(S, rid, data, code) ==
    IF code # 0 THEN [sched |-> S, returned |-> <<>>] ELSE received(S, rid, data)

\* Request.remove: the scan; i is the code's index, last holds the last request dequeued
\* (<<>>: null).
\* After a dequeue the inner while reads this.requests[i] again without a bound check.
RECURSIVE removeLoop(_, _, _, _, _)
removeLoop(S, i, last, folder, name) ==
    IF i >= Len(S.requests) THEN [sched |-> S, last |-> last]
    ELSE LET o == S.requests[i + 1]
             r == S.heap[o]
         IN IF r.blockRequest.folder = folder /\ r.blockRequest.name = name
            THEN LET S1 == [S EXCEPT !.heap[o].timeout = FALSE,
                                     !.requests = dequeue(S.requests, i)]
                 IN IF i >= Len(S1.requests)
                    THEN [sched |-> [S1 EXCEPT !.threw = TRUE], last |-> <<r>>]
                    ELSE removeLoop(S1, i, <<r>>, folder, name)
            ELSE removeLoop(S, i + 1, last, folder, name)

\* Request.remove
remove(S, folder, name) ==
    LET res == removeLoop(S, 0, <<>>, folder, name)
        S1  == res.sched
    IN IF S1.threw \/ res.last = <<>> THEN Collect(S1)
       ELSE Collect(process([S1 EXCEPT !.waits = Settle(S1.waits, res.last[1].callback, "removed")]))

SetSched(S) ==
    /\ requests' = S.requests
    /\ heap' = S.heap
    /\ id' = S.id
    /\ totalActive' = S.totalActive
    /\ waits' = S.waits
    /\ wire' = S.wire

----------------------------------------------------------------------------
(* Authentication: DeviceIds.  A certificate fingerprint is one of         *)
(* 1..NumDevices; NoCert stands for a socket that yields no certificate.   *)

DeviceIds == 1..NumDevices
NoCert    == NumDevices + 1

\* the value returned for an id that cannot be derived: empty bytes, empty string
InvalidId == [asBytes |-> <<>>, asString |-> <<>>, valid |-> FALSE]

\* the 56-character form of a certificate whose four groups have a check character
DeviceString(bytes) == <<"id", bytes[1], "check", bytes[1] % 2>>

\* Authentication.fromSocket
fromSocket(cert) ==
    IF cert = NoCert THEN InvalidId
    ELSE [asBytes |-> <<cert>>, asString |-> DeviceString(<<cert>>), valid |-> TRUE]

\* Authentication.fromString, of the string form of device d (d = NoCert: a malformed string)
fromString(d) ==
    IF d = NoCert THEN InvalidId
    ELSE [asString |-> DeviceString(<<d>>), asBytes |-> <<d>>, valid |-> TRUE]

\* a handler that accepts every certificate a DeviceId can be derived from
AnyValidCertificate(connected, expected) == connected.valid

\* the test of PeerSocket's secureConnect handler
Authenticated(connected, expected) ==
    ~(connected.valid = FALSE \/ connected.asString # expected.asString)

----------------------------------------------------------------------------
(* Sqlite / Database: block rows.  blocks[f] is the set of rows of file f;  *)
(* (fileId, offset) is UNIQUE, a statement that would break it throws.      *)

RECURSIVE SortByOffset(_)
SortByOffset(rows) ==
    IF rows = {} THEN <<>>
    ELSE LET m == CHOOSE r \in rows : \A q \in rows : r.offset <= q.offset
         IN <<m>> \o SortByOffset(rows \ {m})

\* Sqlite.getBlocks
getBlocks(rows) == SortByOffset(rows)

\* Sqlite.getBlocksOffset
getBlocksOffset(rows, position, length) ==
    SortByOffset({r \in rows : r.offset < position + length /\ r.offset + r.size > position})

\* Sqlite.updateBlock: UPDATE block SET ... WHERE fileId = ? AND offset = ?
sqlUpdateBlock(T, block, offset) ==
    LET target == {r \in T.rows : r.offset = offset}
        others == T.rows \ target
    IN IF target = {} THEN T
       ELSE IF \E r \in others : r.offset = block.offset THEN [T EXCEPT !.threw = TRUE]
       ELSE [T EXCEPT !.rows = others \cup {block}]

\* Sqlite.addBlock
sqlAddBlock(T, block) ==
    IF \E r \in T.rows : r.offset = block.offset THEN [T EXCEPT !.threw = TRUE]
    ELSE [T EXCEPT !.rows = T.rows \cup {block}]

\* Sqlite.deleteBlock
sqlDeleteBlock(T, offset) == [T EXCEPT !.rows = {r \in T.rows : r.offset # offset}]

\* Sqlite.isRowEqual(block, blockRow, ['cached'])
BlockEqual(block, row) ==
    block.offset = row.offset /\ block.size = row.size /\ block.hash = row.hash

\* a store that carries the cached mark of the old row over to the changed block
KeepCached(block, blockRow) == [block EXCEPT !.cached = blockRow.cached]

\* Database.updateBlocks: "if already cached then we need to set it as stale"
StaleIfCached(block, blockRow) ==
    IF blockRow.cached = 1 THEN [block EXCEPT !.cached = 2] ELSE block

\* the loop of Database.updateBlocks from index i (1-based here); blockRows was read before it
RECURSIVE updateBlocksLoop(_, _, _, _)
updateBlocksLoop(T, new, blockRows, i) ==
    IF T.threw \/ (i > Len(new) /\ i > Len(blockRows)) THEN T
    ELSE IF i <= Len(new)
    THEN IF i <= Len(blockRows)
         THEN IF ~BlockEqual(new[i], blockRows[i])
              THEN LET block == StaleIfCached(new[i], blockRows[i])
                   IN updateBlocksLoop([sqlUpdateBlock(T, block, blockRows[i].offset)
                                            EXCEPT !.updated = TRUE], new, blockRows, i + 1)
              ELSE updateBlocksLoop(T, new, blockRows, i + 1)
         ELSE updateBlocksLoop([sqlAddBlock(T, [new[i] EXCEPT !.cached = 0])
                                   EXCEPT !.updated = TRUE], new, blockRows, i + 1)
    ELSE IF blockRows[i].cached # 0
         THEN updateBlocksLoop([sqlUpdateBlock(T, [blockRows[i] EXCEPT !.size = 0, !.cached = 2],
                                               blockRows[i].offset)
                                   EXCEPT !.updated = TRUE], new, blockRows, i + 1)
         ELSE updateBlocksLoop(sqlDeleteBlock(T, blockRows[i].offset), new, blockRows, i + 1)

\* Database.updateBlocks(fileId, blocks): the rows after it, whether it changed a row,
\* whether a statement threw
updateBlocks(rows, new) ==
    updateBlocksLoop([rows |-> rows, updated |-> FALSE, threw |-> FALSE], new, getBlocks(rows), 1)

\* Database.updateBlock(blockRequest), outside a transaction
updateBlock(rows, blockRequest) ==
    sqlUpdateBlock([rows |-> rows, updated |-> FALSE, threw |-> FALSE],
                   blockRequest.block, blockRequest.block.offset).rows

\* the block list of a wire file entry, as Communication.decodeMessage yields it
RECURSIVE DecodedBlocks(_)
DecodedBlocks(hs) ==
    IF hs = <<>> THEN <<>>
    ELSE Append(DecodedBlocks(SubSeq(hs, 1, Len(hs) - 1)), Row(Len(hs) - 1, hs[Len(hs)], 0))

HashLists(n) == UNION {[1..m -> Hashes] : m \in 0..n}

----------------------------------------------------------------------------
(* Framing of the inbound byte stream.  A byte is a number 0..255; a buffer *)
(* made by `new Uint8Array(size)` is [size, written]: the bytes stored from *)
(* index 0 on (stores past the size are dropped), zeros after them.         *)

\* the four bytes of 0x2EA7D90B
Magic == <<46, 167, 217, 11>>

\* dataView.getUint16(offset); -1: RangeError
getUint16(data, offset) ==
    IF offset + 2 > Len(data) THEN -1 ELSE data[offset + 1] * 256 + data[offset + 2]

\* dataView.getUint32(offset); -1: RangeError.  Values from 2^31 on are kept as 2^31 - 1
getUint32(data, offset) ==
    IF offset + 4 > Len(data) THEN -1
    ELSE IF data[offset + 1] >= 128 THEN 2147483647
    ELSE ((data[offset + 1] * 256 + data[offset + 2]) * 256 + data[offset + 3]) * 256
            + data[offset + 4]

\* data.slice(start, end)
slice(data, start, end) ==
    IF start >= Len(data) \/ end <= start THEN <<>>
    ELSE SubSeq(data, start + 1, IF end < Len(data) THEN end ELSE Len(data))

\* the two-byte and four-byte big-endian forms of a small number
Uint16(n) == <<n \div 256, n % 256>>
Uint32(n) == <<0, 0, n \div 256, n % 256>>

\* protobuf Header {type = 1; compression = 2}: zero fields are left out
encodeHeader(type, compression) ==
    (IF type = 0 THEN <<>> ELSE <<8, type>>) \o (IF compression = 0 THEN <<>> ELSE <<16, compression>>)

\* decodeMessage('Header', headerData) merged over {type: 0, compression: 0}; bytes that
\* are no Header make decodeMessage log and return undefined, which leaves the defaults
decodeHeader(headerData) ==
    IF Len(headerData) = 2 /\ headerData[1] = 8
    THEN [type |-> headerData[2], compression |-> 0]
    ELSE IF Len(headerData) = 2 /\ headerData[1] = 16
    THEN [type |-> 0, compression |-> headerData[2]]
    ELSE IF Len(headerData) = 4 /\ headerData[1] = 8 /\ headerData[3] = 16
    THEN [type |-> headerData[2], compression |-> headerData[4]]
    ELSE [type |-> 0, compression |-> 0]

\* Communication.typeToString(type) !== null
typeToString(type) == type >= 0 /\ type <= 7

\* new Uint8Array(size)
Uint8Array(size) == [size |-> size, written |-> <<>>]

\* byte k (from 0) of a buffer; past its end: undefined, which `| 0` makes 0
ByteAt(buffer, k) == IF k < Len(buffer.written) THEN buffer.written[k + 1] ELSE 0

\* the for loop `this.message.data[this.message.received++] = data[i]`
Store(buffer, bytes) ==
    LET all == buffer.written \o bytes
    IN [buffer EXCEPT !.written = IF Len(all) > buffer.size THEN SubSeq(all, 1, buffer.size) ELSE all]

\* the match copy of decompressBlock: n bytes from `offset` back, one at a time
RECURSIVE copyMatch(_, _, _)
copyMatch(out, offset, n) ==
    IF n = 0 THEN out
    ELSE copyMatch(Append(out, IF offset >= 1 /\ offset <= Len(out)
                               THEN out[Len(out) + 1 - offset] ELSE 0), offset, n - 1)

\* lz4js decompressBlock(src, dst, i, sEnd, 0) for lengths below 15: the bytes put into dst
RECURSIVE decompressLoop(_, _, _, _)
decompressLoop(src, i, sEnd, out) ==
    IF i >= sEnd THEN out
    ELSE LET token == ByteAt(src, i)
             literalCount == token \div 16
             literals == [k \in 1..literalCount |-> ByteAt(src, i + k)]
             j == i + 1 + literalCount
             mOffset == ByteAt(src, j) + 256 * ByteAt(src, j + 1)
             mLength == (token % 16) + 4
         IN IF j >= sEnd THEN out \o literals
            ELSE decompressLoop(src, j + 2, sEnd, copyMatch(out \o literals, mOffset, mLength))

decompressBlock(src, sLength, decompressedLength) ==
    Store(Uint8Array(decompressedLength), decompressLoop(src, 0, sLength, <<>>))

\* Communication.message after the constructor
NoMessage == [state |-> "start", type |-> 0, compression |-> 0, headerLength |-> 0, length |-> 0,
              decompressedLength |-> 0, received |-> 0, data |-> Uint8Array(0)]

\* a call of receiveMessage that threw a RangeError: the fields assigned before it stay
Threw(message) == [message |-> message, emitted |-> <<>>, threw |-> TRUE]

\* the end of receiveMessage: the test for a whole message, decompression and the emit
finish(message, dataOffset) ==
    IF message.received + dataOffset >= message.length
    THEN LET data == IF message.compression # 0
                     THEN decompressBlock(message.data, message.length, message.decompressedLength)
                     ELSE message.data
             done == [message EXCEPT !.state = "start", !.data = data]
         IN [message |-> done, threw |-> FALSE,
             emitted |-> IF typeToString(message.type)
                         THEN <<[type |-> message.type, data |-> data,
                                 received |-> message.received, length |-> message.length]>>
                         ELSE <<>>]
    ELSE [message |-> [message EXCEPT !.state = "continue"], emitted |-> <<>>, threw |-> FALSE]

\* Communication.receiveMessage(data): the message state after it and the 'message' event
receiveMessage(message, data) ==
    IF message.state = "start"
    THEN LET headerLength == getUint16(data, 0)
             length == getUint32(data, headerLength + 2)
             header == decodeHeader(slice(data, 2, headerLength + 2))
             decompressedLength == getUint32(data, headerLength + 6)
             dataOffset == IF header.compression # 0 THEN headerLength + 10 ELSE headerLength + 6
             started == [state |-> "start", type |-> header.type, compression |-> header.compression,
                         headerLength |-> headerLength,
                         length |-> IF header.compression # 0 THEN length - 4 ELSE length,
                         decompressedLength |-> IF header.compression # 0 THEN decompressedLength
                                                ELSE message.decompressedLength,
                         received |-> Len(slice(data, dataOffset, Len(data))),
                         data |-> Store(Uint8Array(IF header.compression # 0 THEN decompressedLength
                                                   ELSE length),
                                        slice(data, dataOffset, Len(data)))]
         IN IF headerLength = -1 THEN Threw(message)
            ELSE IF length = -1 THEN Threw([message EXCEPT !.headerLength = headerLength])
            ELSE IF header.compression # 0 /\ decompressedLength = -1
            THEN Threw([message EXCEPT !.headerLength = headerLength, !.length = length,
                           !.type = header.type, !.compression = header.compression,
                           !.received = 0,
                           !.data = Store(Uint8Array(Len(slice(data, headerLength + 6, Len(data)))),
                                          slice(data, headerLength + 6, Len(data)))])
            ELSE finish(started, dataOffset)
    ELSE finish([message EXCEPT !.received = @ + Len(data), !.data = Store(@, data)], 0)

\* the Hello a client writes (sendHello): magic, length, protobuf Hello
HelloBody  == <<10, 1, 65>>
HelloBytes == Magic \o Uint16(Len(HelloBody)) \o HelloBody

\* a frame as sendMessage lays it out; an LZ4 payload is decompressedLen + block
FrameBytes(frame) ==
    LET header == encodeHeader(frame.type, frame.compression)
        body == IF frame.compression # 0 THEN Uint32(Len(frame.payload)) \o frame.block
                ELSE frame.payload
    IN Uint16(Len(header)) \o header \o Uint32(Len(body)) \o body

\* the frames of the peer: a ClusterConfig (type 0, empty header), an Index, and an Index
\* whose seven equal bytes travel as the LZ4 block "literal 5, match of 5 at 1, literal 5"
PeerFrames ==
    {[type |-> 0, compression |-> 0, payload |-> <<9, 9>>, block |-> <<>>],
     [type |-> 1, compression |-> 0, payload |-> <<5, 6, 7>>, block |-> <<>>],
     [type |-> 1, compression |-> 1, payload |-> <<5, 5, 5, 5, 5, 5, 5>>,
      block |-> <<17, 5, 1, 0, 16, 5>>]}

RECURSIVE StreamOf(_)
StreamOf(frames) ==
    IF frames = <<>> THEN <<>> ELSE FrameBytes(Head(frames)) \o StreamOf(Tail(frames))

\* no byte has arrived and none will
NoFramer == [rest |-> <<>>, sent |-> <<>>, hello |-> FALSE, first |-> 0, message |-> NoMessage,
             delivered |-> <<>>, hellos |-> 0, crashed |-> FALSE]

----------------------------------------------------------------------------
(* Decoding of a wire Index.  A name is the sequence of its path components *)
(* below the folder root: <<"a", "x">> is a/x on the wire and /a/x decoded,  *)
(* <<>> is the root "/".                                                     *)

\* path.dirname and path.basename on '/' + name
dirname(name)  == SubSeq(name, 1, Len(name) - 1)
basename(name) == name[Len(name)]

\* FileInfoType of the wire: file, directory, symlink
FileInfoType == [FILE |-> 0, DIRECTORY |-> 1, SYMLINK |-> 4]

\* position of the first directory of that name in index.directories, 0 if none
FirstNamed(directories, name) ==
    IF \E i \in 1..Len(directories) : directories[i].name = name
    THEN CHOOSE i \in 1..Len(directories) :
            directories[i].name = name /\ \A j \in 1..(i - 1) : directories[j].name # name
    ELSE 0

\* the body of the loop over decodedMessage['files'] for one entry
decodeFile(directories, decodedFile) ==
    IF decodedFile.type = FileInfoType.DIRECTORY
    THEN LET directory == [name |-> decodedFile.name, permissions |-> decodedFile.permissions,
                           files |-> <<>>]
             i == FirstNamed(directories, directory.name)
         IN IF i # 0 THEN [directories EXCEPT ![i] = directory]
            ELSE Append(directories, directory)
    ELSE LET file == [name |-> basename(decodedFile.name), permissions |-> decodedFile.permissions]
             i == FirstNamed(directories, dirname(decodedFile.name))
         IN IF i # 0 THEN [directories EXCEPT ![i].files = Append(@, file)]
            ELSE Append(directories, [name |-> dirname(decodedFile.name), permissions |-> 0,
                                      files |-> <<file>>])

\* Communication.decodeMessage('Index' | 'IndexUpdate'): index.directories
RECURSIVE decodeIndex(_)
decodeIndex(files) ==
    IF files = <<>> THEN <<>>
    ELSE decodeFile(decodeIndex(SubSeq(files, 1, Len(files) - 1)), files[Len(files)])

\* nothing was decoded yet
NoDecoding == [files |-> <<>>, directories |-> <<>>]

----------------------------------------------------------------------------
(* The relay protocol of PeerSocket.connect *)

RelayMessageType == [JoinSessionRequest |-> 3, Response |-> 4, ConnectRequest |-> 5,
                     SessionInvitation |-> 6]
SessionJoinResponse == [ResponseNotFound |-> 1, ResponseAlreadyConnected |-> 2,
                        ResponseSuccess |-> 3]

\* the type relayProtocolDecodeMessage gives to data that is too short or lacks the magic value
InvalidType == 255

\* no relay URL was connected to
NoRelay == [step |-> "none", session |-> "none", reply |-> <<>>]

\* a decoded RelayMessage; code = -1: the message is null (the Response was cut short)
RelayMessage(type, code) == [type |-> type, code |-> code]
RelayTypes == {RelayMessageType.Response, RelayMessageType.SessionInvitation, InvalidType}
RelayCodes == -1..MaxCode

----------------------------------------------------------------------------
(* Device ids, character by character.  A character is its index in the     *)
(* RFC 4648 alphabet "ABCDEFGHIJKLMNOPQRSTUVWXYZ234567" (0..31); any other  *)
(* character is a number from AlphabetSize on.                              *)

AlphabetSize == 32
GroupLength  == 13
GroupCount   == 4

\* a lower-case letter, by its position in a..z
Lower(k) == AlphabetSize + k

\* the text "undefined", which `deviceIdChecked += alphabet[32]` appends
undefined == <<Lower(20), Lower(13), Lower(3), Lower(4), Lower(5), Lower(8), Lower(13),
               Lower(4), Lower(3)>>

\* alphabet.indexOf(character)
indexOf(character) == IF character < AlphabetSize THEN character ELSE -1

\* the loop of calculateCheckDigit over the characters from k on; factor is 1, 2, 1, ...
RECURSIVE checkSum(_, _)
checkSum(group, k) ==
    IF k > Len(group) THEN 0
    ELSE LET addend == (IF k % 2 = 1 THEN 1 ELSE 2) * indexOf(group[k])
         IN (addend \div AlphabetSize) + (addend % AlphabetSize) + checkSum(group, k + 1)

\* a check digit computed as (32 - sum mod 32) mod 32
CheckDigitModulo(sum) == <<(AlphabetSize - (sum % AlphabetSize)) % AlphabetSize>>

\* alphabet[alphabetSize - (sum % alphabetSize)]: index 32 is outside the alphabet
CheckDigit(sum) ==
    LET checkCodePoint == AlphabetSize - (sum % AlphabetSize)
    IN IF checkCodePoint < AlphabetSize THEN <<checkCodePoint>> ELSE undefined

\* Authentication.calculateCheckDigit(group): the text it returns, or that it threw
calculateCheckDigit(group) ==
    IF \E k \in 1..Len(group) : indexOf(group[k]) = -1
    THEN [threw |-> TRUE, digit |-> <<>>]
    ELSE [threw |-> FALSE, digit |-> CheckDigit(checkSum(group, 1))]

\* Authentication.addCheckDigits(deviceId), groups i..4
RECURSIVE addCheckDigitsLoop(_, _)
addCheckDigitsLoop(deviceId, i) ==
    IF i = GroupCount THEN [threw |-> FALSE, text |-> <<>>]
    ELSE LET group == SubSeq(deviceId, i * GroupLength + 1, (i + 1) * GroupLength)
             checkDigit == calculateCheckDigit(group)
             rest == addCheckDigitsLoop(deviceId, i + 1)
         IN IF checkDigit.threw \/ rest.threw THEN [threw |-> TRUE, text |-> <<>>]
            ELSE [threw |-> FALSE, text |-> group \o checkDigit.digit \o rest.text]

addCheckDigits(deviceId) ==
    IF Len(deviceId) # GroupCount * GroupLength THEN [threw |-> TRUE, text |-> <<>>]
    ELSE addCheckDigitsLoop(deviceId, 0)

\* Authentication.removeCheckDigits(deviceIdChecked), groups i..4
RECURSIVE removeCheckDigitsLoop(_, _)
removeCheckDigitsLoop(deviceIdChecked, i) ==
    IF i = GroupCount THEN [threw |-> FALSE, text |-> <<>>]
    ELSE LET index == i * (GroupLength + 1)
             group == SubSeq(deviceIdChecked, index + 1, index + GroupLength)
             checkDigit == <<deviceIdChecked[index + GroupLength + 1]>>
             calculatedCheckDigit == calculateCheckDigit(group)
             rest == removeCheckDigitsLoop(deviceIdChecked, i + 1)
         IN IF calculatedCheckDigit.threw \/ checkDigit # calculatedCheckDigit.digit \/ rest.threw
            THEN [threw |-> TRUE, text |-> <<>>]
            ELSE [threw |-> FALSE, text |-> group \o rest.text]

removeCheckDigits(deviceIdChecked) ==
    IF Len(deviceIdChecked) # GroupCount * (GroupLength + 1) THEN [threw |-> TRUE, text |-> <<>>]
    ELSE removeCheckDigitsLoop(deviceIdChecked, 0)

\* bit j (from 0, most significant first) of a sequence of w-bit digits; 0 past its end
Bit(digits, w, j) ==
    IF j \div w + 1 > Len(digits) THEN 0
    ELSE (digits[j \div w + 1] \div (2 ^ (w - 1 - (j % w)))) % 2

\* the number spelled by the w bits from bit j on
RECURSIVE Bits(_, _, _, _)
Bits(digits, from, j, w) ==
    IF w = 0 THEN 0
    ELSE Bit(digits, from, j) * (2 ^ (w - 1)) + Bits(digits, from, j + 1, w - 1)

\* base32Encode(bytes, 'RFC4648', {padding: false})
base32Encode(bytes) == [c \in 1..((Len(bytes) * 8 + 4) \div 5) |-> Bits(bytes, 8, 5 * (c - 1), 5)]

\* base32Decode(text, 'RFC4648')
base32Decode(text) == [b \in 1..((Len(text) * 5) \div 8) |-> Bits(text, 5, 8 * (b - 1), 8)]

\* Authentication.fromSocket, from the bytes of the certificate's fingerprint256
fromSocketBytes(asBytes) ==
    LET checked == addCheckDigits(base32Encode(asBytes))
    IN IF checked.threw THEN InvalidId
       ELSE [asBytes |-> asBytes, asString |-> checked.text, valid |-> TRUE]

\* Authentication.fromString, from the characters of a device id without hyphens
fromStringChars(deviceId) ==
    LET data == removeCheckDigits(deviceId)
    IN IF data.threw THEN InvalidId
       ELSE [asString |-> deviceId, asBytes |-> base32Decode(data.text), valid |-> TRUE]

----------------------------------------------------------------------------
(* Database, table by table.  A store is a record of the tables; a value of *)
(* the working copy T of a transaction is [db, sequence, updated, threw].   *)

SyncStatus == [none |-> 0, download |-> 1, full |-> 2]
FileFlags  == [deleted |-> 1, invalid |-> 2, noPermissions |-> 4]

EmptyStore == [folder |-> {}, device |-> {}, directory |-> {}, file |-> {}, block |-> <<>>]
NoCall == "done"

\* this.deviceId and this.name of the Database, and the id of the peer
SelfId   == "self"
SelfName == "me"
PeerId   == "peer"

\* lastInsertRowid of an autoincrement table
NextRowId(rows) == Cardinality(rows) + 1

\* Sqlite.getFolder(idString): the matching rows (none: null)
getFolder(db, idString) == {r \in db.folder : r.idString = idString}

\* Sqlite.getDevice(folderId, id)
getDevice(db, folderId, deviceId) == {r \in db.device : r.id = deviceId /\ r.folderId = folderId}

\* Sqlite.isRowEqual(folder, folderRow): idString, label, path, flags
FolderEqual(folder, row) ==
    folder.idString = row.idString /\ folder.label = row.label
       /\ folder.path = row.path /\ folder.flags = row.flags

\* Sqlite.isRowEqual(device, deviceRow): id, name, addresses, indexId, maxSequence
DeviceEqual(device, row) ==
    device.id = row.id /\ device.name = row.name /\ device.addresses = row.addresses
       /\ device.indexId = row.indexId /\ device.maxSequence = row.maxSequence

\* Sqlite.addDevice: a self row gets randomBytes(8) as its indexId
addDevice(db, device, folderId, isSelf) ==
    [db EXCEPT !.device = @ \cup {[id |-> device.id, folderId |-> folderId, name |-> device.name,
                                   addresses |-> device.addresses, maxSequence |-> device.maxSequence,
                                   maxSequenceInternal |-> 0,
                                   indexId |-> IF isSelf THEN "random" ELSE device.indexId]}]

\* Sqlite.updateDevice
updateDevice(db, device, row, maxSequenceInternal) ==
    [db EXCEPT !.device = (@ \ {row}) \cup
        {[row EXCEPT !.maxSequenceInternal = maxSequenceInternal, !.name = device.name,
                     !.addresses = device.addresses, !.maxSequence = device.maxSequence,
                     !.indexId = device.indexId]}]

\* the loop of Database.updateClusterConfig over folder.devices, from device i
RECURSIVE clusterDevices(_, _, _, _)
clusterDevices(db, devices, folderId, i) ==
    IF i > Len(devices) THEN db
    ELSE LET isSelf == devices[i].id = SelfId
             device == IF isSelf THEN [devices[i] EXCEPT !.name = SelfName] ELSE devices[i]
             deviceRow == getDevice(db, folderId, device.id)
         IN IF deviceRow = {}
            THEN clusterDevices(addDevice(db, device, folderId, isSelf), devices, folderId, i + 1)
            ELSE LET row == CHOOSE r \in deviceRow : TRUE
                     maxSequenceInternal == IF ~isSelf /\ device.indexId # row.indexId
                                            THEN 0 ELSE row.maxSequenceInternal
                 IN IF ~DeviceEqual(device, row)
                    THEN clusterDevices(updateDevice(db, device, row, maxSequenceInternal),
                                        devices, folderId, i + 1)
                    ELSE clusterDevices(db, devices, folderId, i + 1)

\* the loop of Database.updateClusterConfig over cluster.folders, from folder i
RECURSIVE clusterFolders(_, _, _)
clusterFolders(db, folders, i) ==
    IF i > Len(folders) THEN db
    ELSE LET folder == [folders[i] EXCEPT !.path = folders[i].idString]
             folderRow_ == getFolder(db, folder.idString)
             row == CHOOSE r \in folderRow_ : TRUE
             folderId == IF folderRow_ = {} THEN NextRowId(db.folder) ELSE row.id
             db1 == IF folderRow_ = {}
                    THEN [db EXCEPT !.folder = @ \cup {[id |-> folderId, idString |-> folder.idString,
                                                        label |-> folder.label, path |-> folder.path,
                                                        flags |-> folder.flags]}]
                    ELSE IF ~FolderEqual(folder, row)
                    THEN [db EXCEPT !.folder = (@ \ {row}) \cup
                             {[row EXCEPT !.label = folder.label, !.path = folder.path,
                                          !.flags = folder.flags]}]
                    ELSE db
         IN clusterFolders(clusterDevices(db1, folder.devices, folderId, 1), folders, i + 1)

\* Database.updateClusterConfig(cluster): the store after it
updateClusterConfig(db, cluster) == clusterFolders(db, cluster.folders, 1)

\* Sqlite.getDirectory(folderId, name)
getDirectory(db, folderId, name) == {r \in db.directory : r.name = name /\ r.folderId = folderId}

\* Sqlite.getFile(directoryId, name)
getFile(db, directoryId, name) == {r \in db.file : r.name = name /\ r.directoryId = directoryId}

\* Sqlite.addDirectory
addDirectory(db, directory, folderId) ==
    [db EXCEPT !.directory = @ \cup {[id |-> NextRowId(db.directory), folderId |-> folderId,
                                      name |-> directory.name, flags |-> directory.flags,
                                      sequence |-> directory.sequence, sync |-> directory.sync]}]

\* Sqlite.updateDirectory
updateDirectory(db, directory, folderId, row) ==
    [db EXCEPT !.directory = (@ \ {row}) \cup
        {[row EXCEPT !.name = directory.name, !.flags = directory.flags,
                     !.sequence = directory.sequence, !.sync = directory.sync,
                     !.folderId = folderId]}]

\* Sqlite.addFile; the file starts with no block rows
addFile(db, file, directoryId) ==
    [db EXCEPT !.file = @ \cup {[id |-> NextRowId(db.file), directoryId |-> directoryId,
                                 name |-> file.name, flags |-> file.flags,
                                 sequence |-> file.sequence, sync |-> file.sync]},
               !.block = Append(@, {})]

\* Sqlite.updateFile
updateFile(db, file, directoryId, row) ==
    [db EXCEPT !.file = (@ \ {row}) \cup
        {[row EXCEPT !.name = file.name, !.flags = file.flags, !.sequence = file.sequence,
                     !.sync = file.sync, !.directoryId = directoryId]}]

\* Sqlite.updateSequence
updateSequence(db, deviceId, folderId, sequence) ==
    [db EXCEPT !.device = {IF r.id = deviceId /\ r.folderId = folderId
                           THEN [r EXCEPT !.maxSequenceInternal = sequence] ELSE r : r \in @}]

\* Sqlite.isRowEqual(entry, entryRow, ['sequence'])
EntryEqual(entry, row) ==
    entry.name = row.name /\ entry.flags = row.flags /\ entry.sync = row.sync

\* Database.updateEntry(entry, entryRow, parentSync, sequence); entryRow is the set of
\* matching rows, and the entry is returned as the call leaves it
updateEntry(entry, entryRow, parentSync, sequence) ==
    IF entryRow = {}
    THEN IF (entry.flags \div FileFlags.deleted) % 2 = 1
         THEN [updated |-> FALSE, add |-> FALSE, update |-> FALSE, sequence |-> sequence,
               valid |-> FALSE, entry |-> entry]
         ELSE [updated |-> parentSync = SyncStatus.full, add |-> TRUE, update |-> FALSE,
               sequence |-> sequence + 1, valid |-> TRUE,
               entry |-> [entry EXCEPT !.sequence = sequence, !.sync = parentSync]]
    ELSE LET row == CHOOSE r \in entryRow : TRUE
         IN IF ~EntryEqual(entry, row)
            THEN [updated |-> row.sync = SyncStatus.full, add |-> FALSE, update |-> TRUE,
                  sequence |-> sequence + 1, valid |-> TRUE,
                  entry |-> [entry EXCEPT !.sequence = sequence]]
            ELSE [updated |-> FALSE, add |-> FALSE, update |-> FALSE, sequence |-> sequence,
                  valid |-> TRUE, entry |-> entry]

\* the sequence numbers a call of updateEntry gave out
Assigned(entryResult, sequence) == IF entryResult.sequence > sequence THEN {sequence} ELSE {}

\* the loop of Database.updateIndex over directory.files, from file i
RECURSIVE indexFiles(_, _, _, _, _)
indexFiles(T, files, directoryId, sync, i) ==
    IF T.threw \/ i > Len(files) THEN T
    ELSE LET fileRow == getFile(T.db, directoryId, files[i].name)
             entryResult == updateEntry(files[i], fileRow, sync, T.sequence)
             fileId == IF entryResult.add THEN NextRowId(T.db.file)
                       ELSE (CHOOSE r \in fileRow : TRUE).id
             db1 == IF entryResult.add THEN addFile(T.db, entryResult.entry, directoryId)
                    ELSE IF entryResult.update
                    THEN updateFile(T.db, entryResult.entry, directoryId, CHOOSE r \in fileRow : TRUE)
                    ELSE T.db
             B == updateBlocks(db1.block[fileId], files[i].blocks)
         IN IF ~entryResult.valid THEN indexFiles(T, files, directoryId, sync, i + 1)
            ELSE indexFiles([db |-> [db1 EXCEPT !.block[fileId] = B.rows],
                             sequence |-> entryResult.sequence,
                             updated |-> T.updated \/ entryResult.updated \/ (B.updated /\ ~B.threw),
                             threw |-> B.threw,
                             assigned |-> T.assigned \cup Assigned(entryResult, T.sequence)],
                            files, directoryId, sync, i + 1)

\* directory.name.lastIndexOf('/') > 0: the directory is below another one
ParentName(name) == IF name = "/a/b" THEN <<"/a">> ELSE <<>>

\* the loop of Database.updateIndex over index.directories, from directory i
RECURSIVE indexDirectories(_, _, _, _)
indexDirectories(T, directories, folderId, i) ==
    IF T.threw \/ i > Len(directories) THEN T
    ELSE LET directory == directories[i]
             parentDirectoryRow ==
                 IF ParentName(directory.name) = <<>> THEN {}
                 ELSE getDirectory(T.db, folderId, ParentName(directory.name)[1])
             sync == IF parentDirectoryRow = {} THEN 0
                     ELSE (CHOOSE r \in parentDirectoryRow : TRUE).sync
             directoryRow == getDirectory(T.db, folderId, directory.name)
             entryResult == updateEntry(directory, directoryRow, sync, T.sequence)
             directoryId == IF entryResult.add THEN NextRowId(T.db.directory)
                            ELSE (CHOOSE r \in directoryRow : TRUE).id
             db1 == IF entryResult.add THEN addDirectory(T.db, entryResult.entry, folderId)
                    ELSE IF entryResult.update
                    THEN updateDirectory(T.db, entryResult.entry, folderId,
                                         CHOOSE r \in directoryRow : TRUE)
                    ELSE T.db
             T1 == [T EXCEPT !.db = db1, !.sequence = entryResult.sequence,
                             !.updated = @ \/ entryResult.updated,
                             !.assigned = @ \cup Assigned(entryResult, T.sequence)]
         IN IF ~entryResult.valid THEN indexDirectories(T, directories, folderId, i + 1)
            ELSE indexDirectories(indexFiles(T1, directory.files, directoryId, sync, 1),
                                  directories, folderId, i + 1)

\* a store whose ROLLBACK leaves the statements of the transaction in place
KeepStatements(before, T) == T.db

\* Sqlite.rollbackTransaction: the store is the one BEGIN EXCLUSIVE started from
rollbackTransaction(before, T) == before

\* Database.updateIndex(index): the store after it, the value it returns, whether it took
\* the catch branch, and the sequence numbers it gave to rows
updateIndex(db, index) ==
    LET folderRow_ == getFolder(db, index.folder)
        folderId == (CHOOSE r \in folderRow_ : TRUE).id
        deviceRow == getDevice(db, folderId, SelfId)
        sequence == (CHOOSE r \in deviceRow : TRUE).maxSequenceInternal
        root == [name |-> "/", flags |-> 0, sequence |-> sequence, sync |-> 0]
        T0 == IF getDirectory(db, folderId, "/") = {}
              THEN [db |-> addDirectory(db, root, folderId), sequence |-> sequence + 1,
                    updated |-> FALSE, threw |-> FALSE, assigned |-> {sequence}]
              ELSE [db |-> db, sequence |-> sequence, updated |-> FALSE, threw |-> FALSE,
                    assigned |-> {}]
        T == indexDirectories(T0, index.directories, folderId, 1)
    IN IF folderRow_ = {} \/ deviceRow = {}
       THEN [db |-> db, updated |-> FALSE, threw |-> TRUE, partial |-> FALSE, assigned |-> {}]
       ELSE IF T.threw
       THEN [db |-> rollbackTransaction(db, T), updated |-> T.updated, threw |-> TRUE,
             partial |-> T.db # db, assigned |-> {}]
       ELSE [db |-> IF T.updated THEN updateSequence(T.db, SelfId, folderId, T.sequence) ELSE T.db,
             updated |-> T.updated, threw |-> FALSE, partial |-> FALSE, assigned |-> T.assigned]

\* Database.updateSync(path, sync) on the path of a file: the file row takes the state
updateSync(db, fileRow, sync) ==
    [db EXCEPT !.file = (@ \ {fileRow}) \cup {[fileRow EXCEPT !.sync = sync]}]

----------------------------------------------------------------------------
(* Listing.  The SQL patterns work on the characters of a directory name *)

\* the characters of the directory and file names of the model
Chars(name) ==
    CASE name = "/"    -> <<"/">>
      [] name = "/a"   -> <<"/", "a">>
      [] name = "/ab"  -> <<"/", "a", "b">>
      [] name = "/a/b" -> <<"/", "a", "/", "b">>
      [] name = "x"    -> <<"x">>

\* text LIKE pattern || "_%": the pattern, then at least one character
LikeThenSome(text, pattern) ==
    Len(text) > Len(pattern) /\ SubSeq(text, 1, Len(pattern)) = pattern

\* text LIKE pattern || "%/%": the pattern, then anything with a '/' in it
LikeThenSlash(text, pattern) ==
    /\ Len(text) > Len(pattern) /\ SubSeq(text, 1, Len(pattern)) = pattern
    /\ \E k \in (Len(pattern) + 1)..Len(text) : text[k] = "/"

\* SQL replace(text, pattern, ""): every occurrence of the pattern is taken out
RECURSIVE replace(_, _)
replace(text, pattern) ==
    IF text = <<>> THEN <<>>
    ELSE IF Len(text) >= Len(pattern) /\ SubSeq(text, 1, Len(pattern)) = pattern
    THEN replace(SubSeq(text, Len(pattern) + 1, Len(text)), pattern)
    ELSE <<Head(text)>> \o replace(Tail(text), pattern)

\* Sqlite.getDirectoryFolderPath(folderPath, name)
getDirectoryFolderPath(db, folderPath, name) ==
    {r \in db.directory : r.name = name
        /\ \E g \in db.folder : g.id = r.folderId /\ g.path = folderPath}

\* Sqlite.getDirectoriesParent(folderId, parentName): the rows, and the names selected
getDirectoriesParent(db, folderId, parentName) ==
    {[row |-> r, name |-> replace(Chars(r.name), Chars(parentName))] :
        r \in {q \in db.directory :
                  /\ q.folderId = folderId
                  /\ LikeThenSome(Chars(q.name), Chars(parentName))
                  /\ ~LikeThenSlash(Chars(q.name), Chars(parentName))}}

\* Sqlite.getFilesParent(directoryId)
getFilesParent(db, directoryId) == {r \in db.file : r.directoryId = directoryId}

\* Sqlite.getFileParentName(folderPath, directoryName, name)
getFileParentName(db, folderPath, directoryName, name) ==
    {r \in db.file : r.name = name
        /\ \E q \in getDirectoryFolderPath(db, folderPath, directoryName) : q.id = r.directoryId}

\* flags & FileFlags.deleted
IsDeleted(flags) == (flags \div FileFlags.deleted) % 2 = 1

\* Database.list(dir) below the root, dir split into folder and directory name: the
\* directory rows and file rows whose entries it returns
list(db, folder, dir) ==
    LET parentDirectoryRow == getDirectoryFolderPath(db, folder, dir)
        parent == CHOOSE r \in parentDirectoryRow : TRUE
    IN IF parentDirectoryRow = {} THEN [directories |-> {}, files |-> {}]
       ELSE IF IsDeleted(parent.flags) THEN [directories |-> {}, files |-> {}]
       ELSE [directories |-> {e \in getDirectoriesParent(db, parent.folderId, dir) :
                                 ~IsDeleted(e.row.flags)},
             files |-> {r \in getFilesParent(db, parent.id) : ~IsDeleted(r.flags)}]

\* path.join(dir, name) of splitPath(path + sep), in characters
JoinChars(dir, name) ==
    IF dir = "/" THEN <<"/">> \o Chars(name) ELSE Chars(dir) \o <<"/">> \o Chars(name)

\* Database.attributes(path) for a path with no separator at its end, split into folder,
\* directory name and last component: <<>> is null
attributes(db, folder, dir, name) ==
    LET fileRow == getFileParentName(db, folder, dir, name)
        directoryRow == {r \in db.directory : Chars(r.name) = JoinChars(dir, name)
                            /\ \E g \in db.folder : g.id = r.folderId /\ g.path = folder}
    IN IF fileRow # {} /\ (CHOOSE r \in fileRow : TRUE).flags * FileFlags.deleted = 0
       THEN <<[type |-> "file", row |-> CHOOSE r \in fileRow : TRUE]>>
       ELSE IF directoryRow # {} /\ ~IsDeleted((CHOOSE r \in directoryRow : TRUE).flags)
       THEN <<[type |-> "directory", row |-> CHOOSE r \in directoryRow : TRUE]>>
       ELSE <<>>

----------------------------------------------------------------------------
(* Spec: the client *)

NoFrames == [Hello |-> 0, ClusterConfig |-> 0, Request |-> 0]
NoCalls  == [updateClusterConfig |-> 0, updateIndex |-> 0, received |-> 0]

\* the state after new Syncthing(...), before connect()
InitClient ==
    /\ requests = <<>>
    /\ heap = <<>>
    /\ id = 1
    /\ totalActive = 0
    /\ waits = <<>>
    /\ sock = "none"
    /\ peerId = InvalidId
    /\ connectedPeerId = InvalidId
    /\ auth = "pending"
    /\ helloSent = FALSE
    /\ pingTimer = FALSE
    /\ relay = NoRelay
    /\ framer = NoFramer
    /\ decoding = NoDecoding
    /\ wire = NoFrames
    /\ dispatched = NoCalls
    /\ events = {}
    /\ reads = <<>>
    /\ writing = {}
    /\ store = EmptyStore
    /\ call = NoCall

\* the database file is new
FreshStore ==
    /\ folderRow = FALSE
    /\ selfRow = FALSE
    /\ peerRow = FALSE
    /\ blocks = [f \in Files |-> {}]
    /\ cache = [k \in [fileId : Files, offset : CacheOffsets] |-> NoFile]

\* the database file was filled by an earlier session; nothing is cached
KnownStore ==
    /\ folderRow = TRUE
    /\ selfRow = TRUE
    /\ peerRow = TRUE
    /\ blocks = [f \in Files |-> {Row(o, "h1", 0) : o \in 0..(FileBlocks(f) - 1)}]
    /\ cache = [k \in [fileId : Files, offset : CacheOffsets] |-> NoFile]

Init == InitClient /\ (FreshStore \/ KnownStore)

\* Syncthing.connect(url, peerIdString) with a tcp:// url: Communication.connect loads the
\* protocol, PeerSocket.connect opens the TLS socket and installs its handlers
Connect(d) ==
    /\ sock = "none"
    /\ fromString(d).valid
    /\ peerId' = fromString(d)
    /\ sock' = "connecting"
    /\ UNCHANGED <<requests, heap, id, totalActive, waits, connectedPeerId, auth, helloSent,
                   pingTimer, relay, framer, decoding, wire, orchVars, dbVars>>

\* PeerSocket's 'secureConnect' handler, then Communication's
SecureConnect(cert) ==
    /\ sock = "connecting"
    /\ sock' = "open"
    /\ connectedPeerId' = fromSocket(cert)
    /\ IF Authenticated(fromSocket(cert), peerId)
       THEN /\ auth' = "ok"
            /\ helloSent' = TRUE
            /\ pingTimer' = TRUE
            /\ wire' = Count(wire, "Hello")
            /\ UNCHANGED events
       ELSE /\ auth' = "failed"
            /\ events' = events \cup {"error"}
            /\ UNCHANGED <<helloSent, pingTimer, wire>>
    /\ UNCHANGED <<requests, heap, id, totalActive, waits, peerId, relay, framer, decoding,
                   dispatched, reads, writing, dbVars>>

\* the socket's 'error' / 'close' handlers: the socket is gone, Syncthing emits 'error'
SocketClosed ==
    /\ sock \in {"connecting", "open"}
    /\ sock' = "closed"
    /\ events' = events \cup {"error"}
    /\ UNCHANGED <<requests, heap, id, totalActive, waits, peerId, connectedPeerId, auth,
                   helloSent, pingTimer, relay, framer, decoding, wire, dispatched, reads, writing, dbVars>>

\* processPeerMessage(CLUSTER_CONFIG): the peer's config names the folder (or no folder) and
\* lists the devices in `listed`.  getClusterConfig needs both device rows of every folder.
PeerClusterConfig(withFolder, listed) ==
    /\ sock = "open"
    /\ dispatched["updateClusterConfig"] + dispatched["updateIndex"] + dispatched["received"] < MaxFrames
    /\ dispatched' = Count(dispatched, "updateClusterConfig")
    /\ folderRow' = (folderRow \/ withFolder)
    /\ selfRow' = (selfRow \/ (withFolder /\ "self" \in listed))
    /\ peerRow' = (peerRow \/ (withFolder /\ "peer" \in listed))
    /\ IF folderRow' => (selfRow' /\ peerRow')
       THEN /\ wire' = Transmit(wire, "ClusterConfig")
            /\ events' = events \cup {"connected"}
       ELSE UNCHANGED <<wire, events>>
    /\ UNCHANGED <<requests, heap, id, totalActive, waits, connVars, reads, writing, blocks, cache,
                   store, call>>

\* processPeerMessage(INDEX / INDEX_UPDATE): one file entry of file f with blocks of hashes hs
PeerIndex(f, hs) ==
    /\ sock = "open"
    /\ dispatched["updateClusterConfig"] + dispatched["updateIndex"] + dispatched["received"] < MaxFrames
    /\ dispatched' = Count(dispatched, "updateIndex")
    /\ LET T == updateBlocks(blocks[f], DecodedBlocks(hs))
       IN IF folderRow /\ selfRow /\ ~T.threw
          THEN /\ blocks' = [blocks EXCEPT ![f] = T.rows]
               /\ events' = IF T.updated THEN events \cup {"updated"} ELSE events
          ELSE /\ UNCHANGED blocks
               /\ events' = IF folderRow /\ selfRow /\ T.updated
                            THEN events \cup {"updated"} ELSE events
    /\ UNCHANGED <<requests, heap, id, totalActive, waits, connVars, wire, reads, writing,
                   folderRow, selfRow, peerRow, cache, store, call>>

\* processPeerMessage(RESPONSE)
PeerResponse(rid, data, code) ==
    /\ sock = "open"
    /\ IF code # 0
       THEN UNCHANGED <<requests, heap, id, totalActive, waits, wire, dispatched, writing>>
       ELSE LET res == processResponse(Sched, rid, data, code)
            IN /\ dispatched["updateClusterConfig"] + dispatched["updateIndex"]
                     + dispatched["received"] < MaxFrames
               /\ res.sched.id <= MaxId
               /\ SetSched(res.sched)
               /\ dispatched' = Count(dispatched, "received")
               /\ writing' = IF res.returned = <<>> THEN writing
                             ELSE writing \cup {[blockRequest |-> res.returned[1], data |-> data]}
    /\ UNCHANGED <<connVars, events, reads, dbVars>>

\* File.writeBlock completes: the RESPONSE handler resumes, marks the block cached
WriteBlockDone(w) ==
    /\ w \in writing
    /\ writing' = writing \ {w}
    /\ cache' = [cache EXCEPT ![CachePath(w.blockRequest)] = w.data]
    /\ blocks' = [blocks EXCEPT ![w.blockRequest.fileId] =
                     updateBlock(@, [w.blockRequest EXCEPT !.block.cached = 1])]
    /\ UNCHANGED <<requests, heap, id, totalActive, waits, connVars, wire, dispatched, events,
                   reads, folderRow, selfRow, peerRow, store, call>>

\* a timer set by Request.process fires
Timeout(o) ==
    /\ o \in DOMAIN heap
    /\ heap[o].timeout
    /\ LET S == timeoutFires(Sched, o)
       IN S.id <= MaxId /\ SetSched(S)
    /\ UNCHANGED <<connVars, orchVars, dbVars>>

\* the first loop of Syncthing.read over the plan, from entry i
RECURSIVE readPlan(_, _, _, _)
readPlan(R, f, plan, i) ==
    IF i > Len(plan) THEN R
    ELSE LET blockRequest == BlockRequestOf(f, plan[i])
         IN IF blockRequest.block.cached = 1
            THEN readPlan([R EXCEPT !.blockReads = Append(@, [blockRequest |-> blockRequest, w |-> 0])],
                          f, plan, i + 1)
            ELSE LET S == wait([R.sched EXCEPT !.threw = FALSE], blockRequest, user)
                 IN readPlan([R EXCEPT !.sched = S,
                                       !.blockReads = Append(@, [blockRequest |-> blockRequest,
                                                                 w |-> Len(S.waits)])],
                             f, plan, i + 1)

\* Syncthing.read(path, position, length), up to its first await
Read(f, position, length) ==
    /\ Len(reads) < MaxReads
    /\ LET plan == getBlocksOffset(blocks[f], position, length)
           R == readPlan([sched |-> Sched, blockReads |-> <<>>], f, plan, 1)
       IN /\ R.sched.id <= MaxId
          /\ Len(R.sched.waits) <= MaxWaits
          /\ SetSched(R.sched)
          /\ reads' = Append(reads, [fileId |-> f, position |-> position, length |-> length,
                                     blockReads |-> R.blockReads, readData |-> <<>>,
                                     state |-> IF plan = <<>> THEN "returned" ELSE "running"])
    /\ UNCHANGED <<connVars, dispatched, events, writing, dbVars>>

\* the bytes of a block of `size` bytes whose content is blockData: byte k is <<blockData, k>>
Bytes(blockData, size) == [k \in 1..size |-> <<blockData, k - 1>>]

\* Uint8Array.prototype.subarray(start, end), 0 <= start, end <= length
subarray(bytes, start, end) == IF end > start THEN SubSeq(bytes, start + 1, end) ELSE <<>>

\* a read that copies every block from its first byte
SliceFromBlockStart(read, block, blockData) ==
    subarray(Bytes(blockData, block.size), 0,
             IF read.length > block.size THEN block.size ELSE read.length)

\* readData.set(blockData.subarray(start, end), readOffset) for a block of the plan
Slice(read, block, blockData) ==
    LET relativeStart == read.position - block.offset
        start == IF relativeStart < 0 THEN 0 ELSE relativeStart
        relativeEnd == relativeStart + read.length
        end == IF relativeEnd > block.size THEN block.size ELSE relativeEnd
    IN subarray(Bytes(blockData, block.size), start, end)

\* File.readBlock(path, size, hash): it throws when the file cannot be opened; data is <<>>
\* for the zero-length array
readBlock(path, hash) ==
    IF cache[path] = NoFile THEN [threw |-> TRUE, data |-> <<>>]
    ELSE IF SHA256(cache[path]) # hash THEN [threw |-> FALSE, data |-> <<>>]
    ELSE [threw |-> FALSE, data |-> <<cache[path]>>]

\* readData.set(...) throws a RangeError when the piece does not fit into the `length` bytes
\* of readData; otherwise readOffset advances and blockReads.shift() runs
Shift(read, piece) ==
    IF Len(read.readData) + Len(piece) > read.length
    THEN [read EXCEPT !.state = "failed"]
    ELSE [read EXCEPT !.readData = @ \o piece,
                      !.blockReads = Tail(@),
                      !.state = IF Len(read.blockReads) = 1 THEN "returned" ELSE "running"]

\* one iteration of the while loop of Syncthing.read: the awaited promise of the first
\* block read has settled
ReadNext(r) ==
    /\ r \in 1..Len(reads)
    /\ reads[r].state = "running"
    /\ LET read == reads[r]
           e == Head(read.blockReads)
           block == e.blockRequest.block
       IN IF e.w = 0
          THEN LET blockData == readBlock(CachePath(e.blockRequest), block.hash)
               IN IF blockData.threw
                  THEN /\ reads' = [reads EXCEPT ![r].state = "failed"]
                       /\ UNCHANGED <<requests, heap, id, totalActive, waits, wire, blocks>>
                  ELSE IF blockData.data = <<>>
                  THEN LET stale == [e.blockRequest EXCEPT !.block.cached = 2]
                           S == wait(Sched, stale, user)
                       IN /\ S.id <= MaxId
                          /\ Len(S.waits) <= MaxWaits
                          /\ SetSched(S)
                          /\ blocks' = [blocks EXCEPT ![read.fileId] = updateBlock(@, stale)]
                          /\ reads' = [reads EXCEPT ![r].blockReads[1] =
                                          [blockRequest |-> stale, w |-> Len(S.waits)]]
                  ELSE /\ reads' = [reads EXCEPT ![r] = Shift(read, Slice(read, block, blockData.data[1]))]
                       /\ UNCHANGED <<requests, heap, id, totalActive, waits, wire, blocks>>
          ELSE /\ waits[e.w].outcome # "pending"
               /\ IF waits[e.w].outcome \in Data
                  THEN reads' = [reads EXCEPT ![r] = Shift(read, Slice(read, block, waits[e.w].outcome))]
                  ELSE reads' = [reads EXCEPT ![r].state = "failed"]
               /\ UNCHANGED <<requests, heap, id, totalActive, waits, wire, blocks>>
    /\ UNCHANGED <<connVars, dispatched, events, writing, folderRow, selfRow, peerRow, cache,
                   store, call>>

Next ==
    \/ \E d \in {PeerDevice} : Connect(d)
    \/ \E cert \in DeviceIds \cup {NoCert} : SecureConnect(cert)
    \/ SocketClosed
    \/ \E withFolder \in BOOLEAN, listed \in SUBSET {"self", "peer"} : PeerClusterConfig(withFolder, listed)
    \/ \E f \in Files : \E hs \in HashLists(FileBlocks(f)) : PeerIndex(f, hs)
    \/ \E rid \in 1..id, data \in Data, code \in {0, 1} : PeerResponse(rid, data, code)
    \/ \E w \in writing : WriteBlockDone(w)
    \/ \E o \in DOMAIN heap : Timeout(o)
    \/ \E f \in Files, position \in Offsets, length \in 1..NumBlocks : Read(f, position, length)
    \/ \E r \in 1..MaxReads : ReadNext(r)

Spec == Init /\ [][Next]_vars

----------------------------------------------------------------------------
(* SpecRequest, SpecWait: the Request object on its own.  The transport is  *)
(* connected and the handshake is over; the store holds the block rows the  *)
(* BlockRequests are built from.                                            *)

ConnectedClient ==
    /\ requests = <<>>
    /\ heap = <<>>
    /\ id = 1
    /\ totalActive = 0
    /\ waits = <<>>
    /\ sock = "open"
    /\ peerId = fromString(PeerDevice)
    /\ connectedPeerId = fromSocket(PeerDevice)
    /\ auth = "ok"
    /\ helloSent = TRUE
    /\ pingTimer = TRUE
    /\ relay = NoRelay
    /\ framer = NoFramer
    /\ decoding = NoDecoding
    /\ wire = [Hello |-> 1, ClusterConfig |-> 1, Request |-> 0]
    /\ dispatched = [updateClusterConfig |-> 1, updateIndex |-> 0, received |-> 0]
    /\ events = {"connected"}
    /\ reads = <<>>
    /\ writing = {}
    /\ store = EmptyStore
    /\ call = NoCall

InitConnected == ConnectedClient /\ KnownStore

\* the BlockRequests the store yields
BlockRequestsOf(f) == {BlockRequestOf(f, row) : row \in blocks[f]}
BlockRequests == UNION {BlockRequestsOf(f) : f \in Files}

Priorities == {background, user}

\* requests.add(blockRequest, priority, null)
ReqAdd(blockRequest, priority) ==
    /\ LET S == Collect(add(Sched, blockRequest, priority, 0))
       IN S.id <= MaxId /\ SetSched(S)
    /\ UNCHANGED <<connVars, orchVars, dbVars>>

\* requests.wait(blockRequest, priority)
ReqWait(blockRequest, priority) ==
    /\ Len(waits) < MaxWaits
    /\ LET S == Collect(wait(Sched, blockRequest, priority))
       IN S.id <= MaxId /\ SetSched(S)
    /\ UNCHANGED <<connVars, orchVars, dbVars>>

\* requests.remove(folder, name) for the name of file f
ReqRemove(f) ==
    /\ \E i \in 1..Len(requests) : heap[requests[i]].blockRequest.fileId = f
    /\ LET S == remove(Sched, Folder, FileName(f))
       IN S.id <= MaxId /\ SetSched(S)
    /\ UNCHANGED <<connVars, orchVars, dbVars>>

\* requests.received(id, data)
ReqReceived(rid, data) ==
    /\ LET S == received(Sched, rid, data).sched
       IN S.id <= MaxId /\ SetSched(S)
    /\ UNCHANGED <<connVars, orchVars, dbVars>>

NextRequest ==
    \/ \E blockRequest \in BlockRequests, priority \in Priorities : ReqAdd(blockRequest, priority)
    \/ \E f \in Files : ReqRemove(f)
    \/ \E rid \in 1..id, data \in Data : ReqReceived(rid, data)
    \/ \E o \in DOMAIN heap : Timeout(o)

SpecRequest == InitConnected /\ [][NextRequest]_vars

\* the callers wait for and add the blocks of the first file
NextWait ==
    \/ \E blockRequest \in BlockRequestsOf(1), priority \in Priorities : ReqWait(blockRequest, priority)
    \/ \E blockRequest \in BlockRequestsOf(1), priority \in Priorities : ReqAdd(blockRequest, priority)
    \/ \E rid \in 1..id, data \in Data : ReqReceived(rid, data)
    \/ \E o \in DOMAIN heap : Timeout(o)

SpecWait == InitConnected /\ [][NextWait]_vars

----------------------------------------------------------------------------
(* SpecRead: Syncthing.read followed byte by byte.  File 1 holds NumBlocks  *)
(* blocks of BlockSize bytes; the store says its first block is cached, and *)
(* the cache file is there, is missing, or holds other bytes.               *)

ByteRows == {[Row(i * BlockSize, IF i % 2 = 0 THEN "h1" ELSE "h2", IF i = 0 THEN 1 ELSE 0)
                 EXCEPT !.size = BlockSize] : i \in 0..(NumBlocks - 1)}

InitRead ==
    /\ ConnectedClient
    /\ folderRow = TRUE
    /\ selfRow = TRUE
    /\ peerRow = TRUE
    /\ blocks = [f \in Files |-> IF f = 1 THEN ByteRows ELSE {}]
    /\ \E content \in Data \cup {NoFile} :
          cache = [k \in [fileId : Files, offset : CacheOffsets] |->
                      IF k.fileId = 1 /\ k.offset = 0 THEN content ELSE NoFile]

NextRead ==
    \/ \E position \in 0..(NumBlocks * BlockSize - 1), length \in 1..(NumBlocks * BlockSize) :
          Read(1, position, length)
    \/ \E r \in 1..MaxReads : ReadNext(r)
    \/ \E rid \in 1..id, data \in Data, code \in {0, 1} : PeerResponse(rid, data, code)
    \/ \E w \in writing : WriteBlockDone(w)
    \/ \E o \in DOMAIN heap : Timeout(o)

SpecRead == InitRead /\ [][NextRead]_vars

----------------------------------------------------------------------------
(* SpecStore: the Database under cluster configs and index messages *)

\* the folders, directories and files peers name in their messages
FolderIds      == {"F", "G"}
DirectoryNames == {"/", "/a"}

\* a device of a decoded ClusterConfig folder
ClusterDevice(deviceId, indexId) ==
    [id |-> deviceId, name |-> "n", addresses |-> "", indexId |-> indexId, maxSequence |-> 0]

\* the decoded ClusterConfig messages: one folder with a label and a list of devices
ClusterFolder(label, devices) ==
    [folders |-> <<[idString |-> "F", label |-> label, path |-> "", flags |-> 0,
                    devices |-> devices]>>]
Clusters ==
    {ClusterFolder("l1", <<>>),
     ClusterFolder("l2", <<ClusterDevice(PeerId, "i1"), ClusterDevice(SelfId, "i1")>>)}

\* the decoded block lists of a file entry: explicit offsets, cached 0
IndexBlock(offset, hash) == Row(offset, hash, 0)
IndexBlocks ==
    {<<>>} \cup {<<IndexBlock(0, h)>> : h \in Hashes}
       \cup {<<IndexBlock(0, "h1"), IndexBlock(0, "h2")>>}

\* the decoded Index messages: one directory, and at most one file when it is "/a"
IndexFile(flags, bs) ==
    [name |-> "x", flags |-> flags, sequence |-> 0, sync |-> SyncStatus.none, blocks |-> bs]
IndexFiles == {<<>>} \cup {<<IndexFile(fl, bs)>> : fl \in {0, FileFlags.deleted}, bs \in IndexBlocks}
IndexDirectory(name, flags, files) ==
    [name |-> name, flags |-> flags, sequence |-> 0, sync |-> SyncStatus.none, files |-> files]
IndexDirectories ==
    {IndexDirectory("/", fl, <<>>) : fl \in {0, FileFlags.deleted}}
       \cup {IndexDirectory(n, fl, fs) : n \in DirectoryNames \ {"/"}, fl \in {0, FileFlags.deleted},
                                         fs \in IndexFiles}
Indexes == {[folder |-> g, directories |-> <<d>>] : g \in FolderIds, d \in IndexDirectories}

\* the self device's maxSequenceInternal for a folder (-1: no such row)
SelfMax(db, idString) ==
    LET rows == {r \in db.device : r.id = SelfId
                    /\ \E g \in db.folder : g.idString = idString /\ g.id = r.folderId}
    IN IF rows = {} THEN -1 ELSE (CHOOSE r \in rows : TRUE).maxSequenceInternal

InitStore ==
    /\ ConnectedClient
    /\ folderRow = FALSE /\ selfRow = FALSE /\ peerRow = FALSE
    /\ blocks = [f \in Files |-> {}]
    /\ cache = [k \in [fileId : Files, offset : CacheOffsets] |-> NoFile]

\* Communication 'clusterConfig' -> Database.updateClusterConfig(cluster)
ApplyClusterConfig(x) ==
    /\ store' = updateClusterConfig(store, x)
    /\ call' = NoCall
    /\ UNCHANGED <<requests, heap, id, totalActive, waits, connVars, wire, orchVars,
                   folderRow, selfRow, peerRow, blocks, cache>>

\* Communication 'index' / 'indexUpdate' -> Database.updateIndex(index)
ApplyIndex(i) ==
    /\ SelfMax(store, i.folder) < MaxSequence
    /\ LET R == updateIndex(store, i)
       IN /\ store' = R.db
          /\ call' = IF ~R.threw THEN NoCall
                      ELSE IF R.partial THEN "rolled back" ELSE "refused"
    /\ UNCHANGED <<requests, heap, id, totalActive, waits, connVars, wire, orchVars,
                   folderRow, selfRow, peerRow, blocks, cache>>

\* Database.updateBlock(blockRequest) after the cache file of a block was written
MarkCached(fileId, row) ==
    /\ row.size > 0 /\ row.cached # 1
    /\ store' = [store EXCEPT !.block[fileId] =
                    updateBlock(@, [block |-> [row EXCEPT !.cached = 1]])]
    /\ call' = NoCall
    /\ UNCHANGED <<requests, heap, id, totalActive, waits, connVars, wire, orchVars,
                   folderRow, selfRow, peerRow, blocks, cache>>

\* Database.updateSync(path, SyncStatus.full) on a file
MarkFull(fileRow) ==
    /\ fileRow.sync # SyncStatus.full
    /\ store' = updateSync(store, fileRow, SyncStatus.full)
    /\ call' = NoCall
    /\ UNCHANGED <<requests, heap, id, totalActive, waits, connVars, wire, orchVars,
                   folderRow, selfRow, peerRow, blocks, cache>>

NextStore ==
    \/ \E x \in Clusters : ApplyClusterConfig(x)
    \/ \E i \in Indexes : ApplyIndex(i)
    \/ \E fileId \in DOMAIN store.block : \E row \in store.block[fileId] : MarkCached(fileId, row)
    \/ \E fileRow \in store.file : MarkFull(fileRow)

SpecStore == InitStore /\ [][NextStore]_vars

----------------------------------------------------------------------------
(* SpecCodec: a certificate's device id is written out and read back *)

\* the fingerprints: 32 bytes, zero but for one byte inside each 13-character group
VaryingBytes == {1, 10, 18, 26}
ByteSamples  == {0, 1, 8, 255}
Fingerprints ==
    {[b \in 1..32 |-> IF b \in VaryingBytes THEN v[b] ELSE 0] : v \in [VaryingBytes -> ByteSamples]}

InitCodec == InitClient /\ FreshStore

\* a TLS socket presents a certificate: Authentication.fromSocket
Certificate(asBytes) ==
    /\ connectedPeerId = InvalidId
    /\ connectedPeerId' = fromSocketBytes(asBytes)
    /\ UNCHANGED <<requests, heap, id, totalActive, waits, sock, peerId, auth, helloSent,
                   pingTimer, relay, framer, decoding, wire, orchVars, dbVars>>

\* the string form of that id is given to a client as its peer: Authentication.fromString
Configure ==
    /\ connectedPeerId.valid
    /\ peerId = InvalidId
    /\ peerId' = fromStringChars(connectedPeerId.asString)
    /\ UNCHANGED <<requests, heap, id, totalActive, waits, sock, connectedPeerId, auth, helloSent,
                   pingTimer, relay, framer, decoding, wire, orchVars, dbVars>>

NextCodec ==
    \/ \E asBytes \in Fingerprints : Certificate(asBytes)
    \/ Configure

SpecCodec == InitCodec /\ [][NextCodec]_vars

----------------------------------------------------------------------------
(* SpecRelay: the peer is reached through a relay *)

\* PeerSocket.connect(url, peerId) with a relay: URL, up to the first await
RelayConnect(d) ==
    /\ sock = "none" /\ relay.step = "none"
    /\ fromString(d).valid
    /\ peerId' = fromString(d)
    /\ relay' = [relay EXCEPT !.step = "connectRequest"]
    /\ UNCHANGED <<requests, heap, id, totalActive, waits, sock, connectedPeerId, auth, helloSent,
                   pingTimer, framer, decoding, wire, orchVars, dbVars>>

\* the relay answers the ConnectRequest (type = -1: relayRequest rejected)
RelayConnectReply(type) ==
    /\ relay.step = "connectRequest"
    /\ relay' = IF type = RelayMessageType.SessionInvitation
                THEN [relay EXCEPT !.step = "joinRequest", !.session = "open"]
                ELSE [relay EXCEPT !.step = "returned"]
    /\ UNCHANGED <<requests, heap, id, totalActive, waits, sock, peerId, connectedPeerId, auth,
                   helloSent, pingTimer, framer, decoding, wire, orchVars, dbVars>>

\* the relay answers the JoinSessionRequest on the session socket
RelayJoinReply(type, code) ==
    /\ relay.step = "joinRequest"
    /\ (code = -1 \/ type = RelayMessageType.Response)
    /\ IF type # RelayMessageType.Response
       THEN /\ relay' = [step |-> "returned", session |-> "destroyed",
                         reply |-> <<RelayMessage(type, code)>>]
            /\ UNCHANGED sock
       ELSE IF code = -1
       THEN \* response.code on a null message throws; `catch { return; }`
            /\ relay' = [relay EXCEPT !.step = "returned", !.reply = <<RelayMessage(type, code)>>]
            /\ UNCHANGED sock
       ELSE IF code = SessionJoinResponse.ResponseNotFound
       THEN /\ relay' = [step |-> "returned", session |-> "destroyed",
                         reply |-> <<RelayMessage(type, code)>>]
            /\ UNCHANGED sock
       ELSE /\ relay' = [step |-> "negotiated", session |-> "tls",
                         reply |-> <<RelayMessage(type, code)>>]
            /\ sock' = "connecting"
    /\ UNCHANGED <<requests, heap, id, totalActive, waits, peerId, connectedPeerId, auth,
                   helloSent, pingTimer, framer, decoding, wire, orchVars, dbVars>>

\* relayRequest rejects on the session socket ('timeout', 'error', 'close'): it destroyed it
RelayJoinRejected ==
    /\ relay.step = "joinRequest"
    /\ relay' = [relay EXCEPT !.step = "returned", !.session = "destroyed"]
    /\ UNCHANGED <<requests, heap, id, totalActive, waits, sock, peerId, connectedPeerId, auth,
                   helloSent, pingTimer, framer, decoding, wire, orchVars, dbVars>>

InitRelay == InitClient /\ FreshStore

NextRelay ==
    \/ \E d \in {PeerDevice} : RelayConnect(d)
    \/ \E type \in RelayTypes \cup {-1} : RelayConnectReply(type)
    \/ \E type \in RelayTypes, code \in RelayCodes : RelayJoinReply(type, code)
    \/ RelayJoinRejected
    \/ \E cert \in DeviceIds \cup {NoCert} : SecureConnect(cert)
    \/ SocketClosed
    \/ \E withFolder \in BOOLEAN, listed \in SUBSET {"self", "peer"} :
          PeerClusterConfig(withFolder, listed)

SpecRelay == InitRelay /\ [][NextRelay]_vars

----------------------------------------------------------------------------
(* SpecFramer: the peer's bytes arrive in reads of any size *)

\* the client after 'secureConnect': its Hello is written, no byte of the peer is read
ClientOpen ==
    /\ requests = <<>> /\ heap = <<>> /\ id = 1 /\ totalActive = 0 /\ waits = <<>>
    /\ sock = "open" /\ peerId = fromString(PeerDevice) /\ connectedPeerId = fromSocket(PeerDevice)
    /\ auth = "ok" /\ helloSent = TRUE /\ pingTimer = TRUE /\ relay = NoRelay
    /\ decoding = NoDecoding
    /\ wire = [Hello |-> 1, ClusterConfig |-> 0, Request |-> 0]
    /\ dispatched = NoCalls /\ events = {} /\ reads = <<>> /\ writing = {}
    /\ store = EmptyStore /\ call = NoCall

\* the peer sends its Hello (or, out of order, none) and then up to MaxSent frames
InitFramer ==
    /\ ClientOpen /\ FreshStore
    /\ \E hello \in BOOLEAN : \E n \in 1..MaxSent : \E frames \in [1..n -> PeerFrames] :
          framer = [NoFramer EXCEPT !.sent = frames, !.hello = hello,
                       !.rest = (IF hello THEN HelloBytes ELSE <<>>) \o StreamOf(frames)]

\* the 'data' handler of Communication.connect on a read of the next n bytes.  A RangeError
\* of getUint32(0) is an uncaught exception; a rejection of the async receiveMessage is
\* unhandled, which ends the process or only warns, depending on the runtime (fatal).
\* `hellos` counts emit('connect'), `delivered` lists emit('message', ...) in order
PeerData(n, fatal) ==
    /\ ~framer.crashed
    /\ n <= Len(framer.rest)
    /\ LET data == SubSeq(framer.rest, 1, n)
           next == [framer EXCEPT !.rest = SubSeq(@, n + 1, Len(@)),
                                  !.first = IF @ = 0 THEN n ELSE @]
           R == receiveMessage(framer.message, data)
       IN framer' =
             IF Len(data) < 4 THEN [next EXCEPT !.crashed = TRUE]
             ELSE IF SubSeq(data, 1, 4) = Magic
             THEN [next EXCEPT !.hellos = @ + 1]
             ELSE IF R.threw
             THEN [next EXCEPT !.message = R.message, !.crashed = fatal]
             ELSE [next EXCEPT !.message = R.message, !.delivered = @ \o R.emitted]
    /\ UNCHANGED <<requests, heap, id, totalActive, waits, sock, peerId, connectedPeerId, auth,
                   helloSent, pingTimer, relay, decoding, wire, orchVars, dbVars>>

NextFramer == \E n \in 1..Len(framer.rest), fatal \in BOOLEAN : PeerData(n, fatal)

SpecFramer == InitFramer /\ [][NextFramer]_vars

----------------------------------------------------------------------------
(* SpecBlocks: Database.updateBlocks on the block rows of file 1, for block *)
(* lists of two block sizes, so that the offsets of a new list can fall on  *)
(* offsets that are stored                                                  *)

BlockSizes == {1, 2}

\* n contiguous blocks of one size, from offset 0, in offset order
Contiguous(size, hs, cs) ==
    [k \in 1..Len(hs) |-> [offset |-> (k - 1) * size, size |-> size, hash |-> hs[k],
                            cached |-> cs[k]]]

\* the block lists a decoded file entry carries: cached is 0
NewBlocks ==
    {Contiguous(size, hs, [k \in 1..Len(hs) |-> 0]) : size \in BlockSizes, hs \in HashLists(MaxStored)}

Range(q) == {q[k] : k \in 1..Len(q)}

\* file 1 has the rows of an earlier index, some of them cached or stale
InitBlocks ==
    /\ ConnectedClient
    /\ folderRow = TRUE /\ selfRow = TRUE /\ peerRow = TRUE
    /\ cache = [k \in [fileId : Files, offset : CacheOffsets] |-> NoFile]
    /\ \E size \in BlockSizes : \E hs \in HashLists(MaxStored) : \E cs \in [1..Len(hs) -> 0..2] :
          blocks = [f \in Files |-> IF f = 1 THEN Range(Contiguous(size, hs, cs)) ELSE {}]

\* the file loop of Database.updateIndex reaches updateBlocks(fileId, file.blocks) for
\* file 1: the rows are reconciled, or a statement throws and the transaction is rolled back
ReconcileBlocks(new) ==
    /\ LET T == updateBlocks(blocks[1], new)
       IN /\ blocks' = IF T.threw THEN blocks ELSE [blocks EXCEPT ![1] = T.rows]
          /\ call' = IF T.threw THEN "rolled back" ELSE NoCall
    /\ UNCHANGED <<requests, heap, id, totalActive, waits, connVars, wire, orchVars,
                   folderRow, selfRow, peerRow, cache, store>>

NextBlocks == \E new \in NewBlocks : ReconcileBlocks(new)

SpecBlocks == InitBlocks /\ [][NextBlocks]_vars

----------------------------------------------------------------------------
(* SpecDecode: the peer's Index messages are decoded *)

\* the entries of the wire: directory a, and files or symlinks x, a/x, a/y
WireFiles ==
    {[name |-> <<"a">>, type |-> FileInfoType.DIRECTORY, permissions |-> 7]}
       \cup {[name |-> n, type |-> t, permissions |-> 6] :
                n \in {<<"x">>, <<"a", "x">>, <<"a", "y">>},
                t \in {FileInfoType.FILE, FileInfoType.SYMLINK}}

\* the wire messages: up to MaxEntries entries in any order, no name twice
WireIndexes ==
    {files \in UNION {[1..n -> WireFiles] : n \in 1..MaxEntries} :
        \A i, j \in 1..Len(files) : files[i].name = files[j].name => i = j}

\* an Index or IndexUpdate frame is complete: receiveMessage decodes it
DecodeIndex(files) ==
    /\ decoding' = [files |-> files, directories |-> decodeIndex(files)]
    /\ UNCHANGED <<requests, heap, id, totalActive, waits, sock, peerId, connectedPeerId, auth,
                   helloSent, pingTimer, relay, framer, wire, orchVars, dbVars>>

NextDecode == \E files \in WireIndexes : DecodeIndex(files)

\* the connection is open, no frame of the peer has been decoded
InitDecode == ClientOpen /\ FreshStore /\ framer = NoFramer

SpecDecode == InitDecode /\ [][NextDecode]_vars

----------------------------------------------------------------------------
(* SpecList: folder F under index messages for nested and sibling directories *)

ListedNames == {"/a", "/ab", "/a/b"}

\* the decoded Index messages: one directory, and under /a at most the file x, which can
\* be marked deleted or invalid
ListIndexes ==
    {[folder |-> "F", directories |-> <<IndexDirectory(n, fl, <<>>)>>] :
        n \in ListedNames, fl \in {0, FileFlags.deleted}}
       \cup {[folder |-> "F", directories |-> <<IndexDirectory("/a", 0, <<IndexFile(fl, <<>>)>>)>>] :
                fl \in {0, FileFlags.deleted, FileFlags.invalid}}

\* the ClusterConfig by which the peer shares folder F with this device
SharesF == ClusterFolder("l2", <<ClusterDevice(PeerId, "i1"), ClusterDevice(SelfId, "i1")>>)

\* Communication 'index' / 'indexUpdate' -> Database.updateIndex(index)
ListIndex(i) ==
    /\ LET R == updateIndex(store, i)
       IN /\ store' = R.db
          /\ call' = IF ~R.threw THEN NoCall
                      ELSE IF R.partial THEN "rolled back" ELSE "refused"
    /\ UNCHANGED <<requests, heap, id, totalActive, waits, connVars, wire, orchVars,
                   folderRow, selfRow, peerRow, blocks, cache>>

NextList ==
    \/ ApplyClusterConfig(SharesF)
    \/ \E i \in ListIndexes : ListIndex(i)

SpecList == InitStore /\ [][NextList]_vars

----------------------------------------------------------------------------
(* Properties *)

\* the peer's ClusterConfig was applied and the client's own was sent
Exchanged == dispatched["updateClusterConfig"] > 0 /\ wire["ClusterConfig"] > 0

\* C1: a step writes a BEP Request to the transport only when the ClusterConfig exchange
\* is over; a read() issued before it puts no Request on the wire.
C1_NoRequestBeforeExchange ==
    [][wire'["Request"] > wire["Request"] => Exchanged]_vars

\* C2: an Index, IndexUpdate or Response frame reaches the store (updateIndex) or the
\* scheduler (received) only when the ClusterConfig exchange is over.
C2_NoDispatchBeforeExchange ==
    [][(dispatched'["updateIndex"] > dispatched["updateIndex"]
          \/ dispatched'["received"] > dispatched["received"]) => Exchanged]_vars

\* C3: the secure connection is signalled upward (Hello sent, keepalive armed) only if the
\* DeviceId recomputed from the peer's certificate is valid and equals the expected one;
\* no Hello is written otherwise.
C3_AuthenticatedBeforeHello ==
    /\ (auth = "ok" \/ helloSent \/ pingTimer \/ wire["Hello"] > 0)
          => (connectedPeerId.valid /\ connectedPeerId.asString = peerId.asString)
    /\ auth = "failed" => (~helloSent /\ ~pingTimer /\ wire["Hello"] = 0)

C3_HelloSent == auth = "ok" /\ helloSent /\ pingTimer /\ wire["Hello"] = 1

\* C4: once the DeviceId check has failed the connection is dead: the error is surfaced,
\* the socket is closed and no frame of the peer is delivered upward any more.
C4_MismatchIsFatal ==
    [][auth = "failed" => ("error" \in events' /\ sock' = "closed" /\ dispatched' = dispatched)]_vars

PendingTimers == {o \in DOMAIN heap : heap[o].timeout}

\* C5: the number of requests that were sent and whose timer is pending never exceeds
\* `concurrent`.
C5_AtMostConcurrent == Cardinality(PendingTimers) <= Concurrent

Waiting(h, q) == {q[i] : i \in {j \in 1..Len(q) : ~h[q[j]].active}}

\* C6: a step that transmits a waiting background request leaves no user request waiting:
\* user requests are transmitted first.
C6_UserBeforeBackground ==
    [][\A o \in Waiting(heap, requests) :
          (o \in DOMAIN heap' /\ heap'[o].active /\ heap'[o].priority = background)
             => \A u \in Waiting(heap', requests') : heap'[u].priority # user]_vars

Key(blockRequest) == <<blockRequest.fileId, blockRequest.block.offset>>

QueuedKeys == {Key(heap[requests[i]].blockRequest) : i \in 1..Len(requests)}

\* C7: the queue never holds two requests for the same (fileId, offset), and add for a
\* block that is queued returns with the queue, the id counter, the active count and the
\* wire as they were: nothing is enqueued, nothing is sent.
C7_OneRequestPerBlock ==
    /\ \A i, j \in 1..Len(requests) :
          Key(heap[requests[i]].blockRequest) = Key(heap[requests[j]].blockRequest) => i = j
    /\ \A blockRequest \in BlockRequests, priority \in Priorities :
          Key(blockRequest) \in QueuedKeys
             => LET S == add(Sched, blockRequest, priority, 0)
                IN /\ S.requests = requests
                   /\ S.wire = wire
                   /\ S.id = id
                   /\ S.totalActive = totalActive

\* two requests were added and sent, then the first was added again as a user request:
\* it stays ahead of the background request, which only the second add can bring about
C7_AddedTwice ==
    /\ Len(requests) = 2
    /\ id = 3
    /\ heap[requests[1]].active /\ heap[requests[1]].priority = user
    /\ heap[requests[2]].active /\ heap[requests[2]].priority = background

\* C8: the priority of a queued request never decreases: an add for a queued block leaves
\* it at the higher of the two priorities.
C8_PriorityNeverDecreases ==
    [][\A i \in 1..Len(requests) : \A j \in 1..Len(requests') :
          requests[i] = requests'[j] => heap'[requests'[j]].priority >= heap[requests[i]].priority]_vars

\* C9: every promise made by wait settles: once the scheduler holds no request and no
\* timer is pending, no promise is pending.
C9_EveryWaitSettles ==
    (requests = <<>> /\ PendingTimers = {})
        => \A w \in 1..Len(waits) : waits[w].outcome # "pending"

\* C10: bytes given to a callback of wait, and bytes on their way into the cache after
\* received() returned their request, hash to the block hash of that request.
C10_OnlyVerifiedBytes ==
    /\ \A w \in 1..Len(waits) :
          waits[w].outcome \in Data => SHA256(waits[w].outcome) = waits[w].req.block.hash
    /\ \A w \in writing : SHA256(w.data) = w.blockRequest.block.hash

\* a read was served by a response, the bytes were cached, and a response with other bytes
\* had been dropped before
C10_ServedAndCached ==
    /\ \E w \in 1..Len(waits) : waits[w].outcome \in Data
    /\ \E k \in DOMAIN cache : cache[k] # NoFile
    /\ dispatched["received"] > 1

\* the bytes the hash h stands for
DataOf(h) == CHOOSE d \in Data : SHA256(d) = h

\* the byte of file 1 at absolute offset x, as the block rows of SpecRead define it
FileByte(x) ==
    LET row == CHOOSE r \in ByteRows : r.offset <= x /\ x < r.offset + r.size
    IN <<DataOf(row.hash), x - row.offset>>

\* C11: read returns at most `length` bytes; when it returns, byte k of the result is the
\* byte of the file at offset position + k, block after block in offset order, whatever
\* the order in which the responses and cache reads completed.
C11_ReadAssemblesInOffsetOrder ==
    \A r \in 1..Len(reads) :
        /\ Len(reads[r].readData) <= reads[r].length
        /\ reads[r].state = "returned" =>
              LET rest == NumBlocks * BlockSize - reads[r].position
                  n == IF reads[r].length < rest THEN reads[r].length ELSE rest
              IN /\ Len(reads[r].readData) = n
                 /\ \A k \in 1..n : reads[r].readData[k] = FileByte(reads[r].position + k - 1)

\* a read that starts inside the first block and ends inside the second has returned, the
\* first block having come from the peer after its cache file failed the hash check
C11_ReadAcrossBlocks ==
    \E r \in 1..Len(reads) :
        /\ reads[r].state = "returned"
        /\ reads[r].position = 1
        /\ reads[r].length = BlockSize + 1
        /\ Len(waits) = 2
        /\ \A w \in 1..2 : waits[w].outcome \in Data

\* C12: a block the store marks cached = 1 that the cache cannot serve (file missing, or
\* content with another hash) never makes the read fail: the block is fetched from the
\* peer, so a read only fails when one of its remote requests was rejected.
C12_UnservableCacheFallsBack ==
    \A r \in 1..Len(reads) :
        reads[r].state = "failed"
           => \E w \in 1..Len(waits) : waits[w].outcome \in {"timeout", "removed", "threw"}

\* C13: a block row is marked cached = 1 only by the completion of a cache write of bytes
\* that hash to the row's hash, for the cache file of that row; a response with an error
\* code, for no active request or with other bytes, and an index update, never set the mark.
C13_CachedOnlyAfterVerifiedWrite ==
    [][\A f \in Files : \A row \in blocks'[f] :
          row.cached = 1 =>
             \/ row \in blocks[f]
             \/ \E w \in writing :
                   /\ w.blockRequest.fileId = f
                   /\ w.blockRequest.block.offset = row.offset
                   /\ SHA256(w.data) = row.hash
                   /\ cache'[CachePath(w.blockRequest)] = w.data]_vars

\* a block is marked cached after the peer's index had changed the file
C13_BlockCached ==
    /\ "updated" \in events
    /\ \E f \in Files : \E row \in blocks[f] :
          row.cached = 1 /\ SHA256(cache[[fileId |-> f, offset |-> row.offset]]) = row.hash

\* C14: when applying an index message fails (unknown folder, no self device row for the
\* folder, or a statement that throws part-way through), the transaction is rolled back and
\* the folder, device, directory, file and block rows are exactly those from before the message.
C14_FailedIndexLeavesStore == [][call' # NoCall => store' = store]_vars

\* an index update threw after it had already changed rows, and was rolled back
C14_RolledBackMidway == call = "rolled back" /\ store.folder # {}

\* C15: after any index update that committed, the self device's maxSequenceInternal for the
\* folder is at least the sequence given to every row the update inserted or updated.
C15_MaxSequenceCoversAssigned ==
    \A i \in Indexes :
        LET R == updateIndex(store, i)
        IN ~R.threw => \A s \in R.assigned : s <= SelfMax(R.db, i.folder)

\* C16: the sequence numbers an index update gives to rows are all greater than the ones an
\* earlier index update of the folder gave: no number is used by two successive updates.
C16_SequencesNeverReused ==
    \A i, j \in {m \in Indexes : m.folder = "F"} :
        LET R1 == updateIndex(store, i)
            R2 == updateIndex(R1.db, j)
        IN ~R1.threw /\ ~R2.threw => \A s1 \in R1.assigned : \A s2 \in R2.assigned : s2 > s1

\* C17: for every index message i and every reachable store, the second of two successive
\* updateIndex(i) returns false and changes no row.
C17_SecondIndexIsNoOp ==
    \A i \in Indexes :
        LET R1 == updateIndex(store, i)
            R2 == updateIndex(R1.db, i)
        IN ~R2.updated /\ R2.db = R1.db

\* C18: for every cluster config x, the store after updateClusterConfig(x) twice is the
\* store after the first call: no folder row and no device row changes in the second call.
C18_SecondClusterConfigIsNoOp ==
    \A x \in Clusters :
        LET once == updateClusterConfig(store, x)
        IN updateClusterConfig(once, x) = once

\* C19: for the 52-character base32 form of every 32-byte id the encoder yields 56
\* characters whose 14th, 28th, 42nd and 56th are the check characters
\* (32 - sum mod 32) mod 32 of the four 13-character groups, and fromString of that string is
\* valid and returns the original bytes.
C19_CheckedStringRoundTrips ==
    /\ connectedPeerId.valid =>
          LET text == connectedPeerId.asString
          IN /\ Len(text) = GroupCount * (GroupLength + 1)
             /\ \A i \in 0..(GroupCount - 1) :
                   LET index == i * (GroupLength + 1)
                   IN <<text[index + GroupLength + 1]>> =
                         CheckDigitModulo(checkSum(SubSeq(text, index + 1, index + GroupLength), 1))
    /\ connectedPeerId.valid =>
          LET read == fromStringChars(connectedPeerId.asString)
          IN read.valid /\ read.asBytes = connectedPeerId.asBytes

\* C20: on the relay path the session socket is wrapped in TLS only when the reply to the
\* JoinSessionRequest is a Response with code ResponseSuccess; after any other reply the
\* session socket is closed, there is no TLS socket and nothing is written to the peer.
C20_UpgradeOnlyOnSuccess ==
    /\ sock # "none" =>
          /\ relay.reply # <<>>
          /\ relay.reply[1].type = RelayMessageType.Response
          /\ relay.reply[1].code = SessionJoinResponse.ResponseSuccess
    /\ (relay.reply # <<>> /\ relay.reply[1].code \notin {-1, SessionJoinResponse.ResponseSuccess}) =>
          relay.session = "destroyed" /\ wire = NoFrames

\* C21: when the relay handshake fails (the relay's id does not match, the reply to the
\* ConnectRequest is no SessionInvitation, the JoinSessionRequest is refused or a step times
\* out), the caller is told: an 'error' event is emitted or connect rejects.
C21_RelayFailureSurfaced == relay.step = "returned" => "error" \in events

\* the payload an emitted message was decoded from
Payload(buffer) == [k \in 1..buffer.size |-> ByteAt(buffer, k - 1)]

\* an emitted message is the frame the peer sent
SameFrame(entry, frame) ==
    /\ entry.type = frame.type
    /\ entry.data.size = Len(frame.payload)
    /\ Payload(entry.data) = frame.payload

\* every frame sent was emitted once, in order, and nothing else was
DeliveredAsSent ==
    /\ ~framer.crashed
    /\ Len(framer.delivered) = Len(framer.sent)
    /\ \A k \in 1..Len(framer.sent) : SameFrame(framer.delivered[k], framer.sent[k])

\* C22: once the Hello has arrived in a read of its own and all bytes after it have been
\* read, in reads of whatever sizes, the messages emitted are exactly the frames the peer
\* sent, each once, in order, with its type and payload.
C22_FramesSurviveSegmentation ==
    (framer.hello /\ framer.first = Len(HelloBytes) /\ framer.rest = <<>>) => DeliveredAsSent

\* C23: a message is emitted only once as many payload bytes have been accumulated as the
\* frame's length field announces (the length less 4 for an LZ4 frame): none is emitted
\* truncated after a first read that held the header and a part of the payload.
C23_NeverDeliveredTruncated ==
    (framer.hello /\ framer.first = Len(HelloBytes))
        => \A k \in 1..Len(framer.delivered) :
                framer.delivered[k].received >= framer.delivered[k].length

\* C24: when the Hello came split across reads or in one read with the frame after it, then
\* once all bytes are read exactly one Hello was recognised and the messages emitted are
\* exactly the frames sent after it.
C24_HelloSurvivesSegmentation ==
    (framer.hello /\ framer.first # Len(HelloBytes) /\ framer.rest = <<>>)
        => (framer.hellos = 1 /\ DeliveredAsSent)

\* C25: no message is emitted before a Hello with the magic number has been received.
C25_NoMessageBeforeHello == framer.delivered # <<>> => framer.hellos >= 1

Queued(S) == {S.requests[i] : i \in 1..Len(S.requests)}

\* C26: a response for an active request whose bytes do not hash to the block hash leaves
\* the request in the queue, for its timeout to retry it.
C26_MismatchKeepsRequest ==
    \A i \in 1..Len(requests) : \A data \in Data :
        LET request == heap[requests[i]]
        IN (request.active /\ SHA256(data) # request.blockRequest.block.hash)
              => requests[i] \in Queued(received(Sched, request.blockRequest.id, data).sched)

\* C27: when the timer of a queued request fires with no retry left, that request leaves
\* the queue and every other queued request stays.
C27_TimeoutRemovesItsRequest ==
    \A i \in 1..Len(requests) :
        LET o == requests[i]
        IN (heap[o].timeout /\ heap[o].retries >= Retries)
              => Queued(timeoutFires(Sched, o)) = Queued(Sched) \ {o}

\* C28: remove(folder, name) for a file with queued requests completes without an exception
\* and leaves no request of that file in the queue.
C28_RemoveTakesEveryRequest ==
    \A f \in Files :
        (\E i \in 1..Len(requests) : heap[requests[i]].blockRequest.fileId = f)
           => LET S == remove(Sched, Folder, FileName(f))
              IN /\ ~S.threw
                 /\ \A o \in Queued(S) : S.heap[o].blockRequest.fileId # f

\* the error codes of a BEP Response: generic, no such file, invalid
ErrorCodes == 1..3

\* C29: a Response with an error code for a request in flight takes that request out of
\* the scheduler's queue.
C29_ErrorResponseDropsRequest ==
    \A i \in 1..Len(requests) : \A code \in ErrorCodes : \A data \in Data :
        LET request == heap[requests[i]]
        IN request.active
              => requests[i] \notin
                    Queued(processResponse(Sched, request.blockRequest.id, data, code).sched)

\* C30: updateIndex returns true only if a directory or file with sync status full was
\* inserted or modified: with no such row in the store before or after it, it returns false.
C30_TrueOnlyForFullEntries ==
    \A i \in Indexes :
        LET R == updateIndex(store, i)
        IN (~R.threw /\ R.updated)
              => \E row \in store.directory \cup store.file \cup R.db.directory \cup R.db.file :
                    row.sync = SyncStatus.full

\* the rows Database.updateBlocks is to leave for stored rows old and new blocks new, both
\* in offset order: position by position, and the rest of old deleted or kept as tombstone
Reconciled(old, new) ==
    {IF k > Len(old) THEN [new[k] EXCEPT !.cached = 0]
     ELSE IF new[k].offset = old[k].offset /\ new[k].size = old[k].size /\ new[k].hash = old[k].hash
     THEN old[k]
     ELSE IF old[k].cached = 1 THEN [new[k] EXCEPT !.cached = 2] ELSE new[k] : k \in 1..Len(new)}
       \cup {[old[k] EXCEPT !.size = 0, !.cached = 2] :
                k \in {j \in (Len(new) + 1)..Len(old) : old[j].cached # 0}}

\* C31: for the stored rows of a file and every contiguous offset-ordered block list, also
\* one whose offsets fall on offsets already stored, updateBlocks runs through without a
\* failing statement and leaves the rows reconciled position by position.
C31_BlocksReconciled ==
    \A new \in NewBlocks :
        LET T == updateBlocks(blocks[1], new)
        IN ~T.threw /\ T.rows = Reconciled(SortByOffset(blocks[1]), new)

\* the places (directory, file) of the decoded Index that hold the wire entry
Places(entry) ==
    {<<d, f>> \in (1..Len(decoding.directories)) \X (1..MaxEntries) :
        /\ f <= Len(decoding.directories[d].files)
        /\ decoding.directories[d].name = dirname(entry.name)
        /\ decoding.directories[d].files[f].name = basename(entry.name)}

\* C32: whatever the order of the entries of a wire Index, each file or symlink entry is
\* in the decoded Index exactly once, under the directory named dirname(name), and the
\* directory carries the metadata of its own entry if the message has one.
C32_EveryFileDecodedOnce ==
    \A k \in 1..Len(decoding.files) :
        LET entry == decoding.files[k]
        IN IF entry.type = FileInfoType.DIRECTORY
           THEN \E d \in 1..Len(decoding.directories) :
                   /\ decoding.directories[d].name = entry.name
                   /\ decoding.directories[d].permissions = entry.permissions
           ELSE Cardinality(Places(entry)) = 1

\* C34: totalActive is the number of queued requests marked active.
C34_TotalActiveCountsActive ==
    totalActive = Cardinality({i \in 1..Len(requests) : heap[requests[i]].active})

\* C35: no step leaves a block row marked cached = 1 with a hash or size other than the
\* row at that offset had before the step: a response for a superseded block neither
\* writes the old hash back nor marks the new block cached.
C35_NoSupersededBlockWrittenBack ==
    [][\A f \in Files : \A row \in blocks'[f] :
          (row.cached = 1 /\ row \notin blocks[f])
             => \E old \in blocks[f] :
                   old.offset = row.offset /\ old.hash = row.hash /\ old.size = row.size]_vars

\* C36: an index update leaves the sync status of every file and directory row that
\* existed before it as it was.
C36_IndexKeepsSync ==
    \A i \in Indexes :
        LET R == updateIndex(store, i)
        IN /\ \A old \in store.file : \A new \in R.db.file : new.id = old.id => new.sync = old.sync
           /\ \A old \in store.directory : \A new \in R.db.directory :
                 new.id = old.id => new.sync = old.sync

\* the directory the decoder supplies for a file whose directory has no entry in the message
Placeholder(name, files) ==
    [name |-> name, flags |-> 0, sequence |-> 0, sync |-> SyncStatus.none, files |-> files]

\* C37: an index message in which a file comes under a placeholder directory leaves the
\* stored row of that directory unchanged.
C37_PlaceholderKeepsDirectoryRow ==
    \A i \in Indexes :
        LET R == updateIndex(store, i)
            directory == i.directories[1]
        IN (directory.files # <<>> /\ directory = Placeholder(directory.name, directory.files)
              /\ ~R.threw)
              => \A old \in store.directory : old.name = directory.name => old \in R.db.directory

\* C38: an updateIndex that was rolled back returns false, so that no 'updated' is emitted
\* for it.
C38_RolledBackReturnsFalse ==
    \A i \in Indexes : LET R == updateIndex(store, i) IN R.threw => ~R.updated

\* the ranges a read of file 1 can ask for
ReadRanges == (0..(MaxStored * 2)) \X (1..(MaxStored * 2))

\* C39: the rows selected for a read hold no tombstone (size 0, cached = 2).
C39_NoTombstoneInReadPlan ==
    \A range \in ReadRanges :
        \A row \in Range(getBlocksOffset(blocks[1], range[1], range[2])) :
            ~(row.size = 0 /\ row.cached = 2)

\* the name of the directory a file row belongs to
DirectoryOf(fileRow) == (CHOOSE r \in store.directory : r.id = fileRow.directoryId).name

\* C33: attributes of the path of a stored file is an entry exactly if the deleted bit of
\* the file is clear, whatever its other flag bits; so it is one for every file list returns.
C33_AttributesForUndeletedFiles ==
    \A fileRow \in store.file :
        LET found == attributes(store, "F", DirectoryOf(fileRow), fileRow.name)
        IN /\ (found # <<>>) <=> ~IsDeleted(fileRow.flags)
           /\ fileRow \in list(store, "F", DirectoryOf(fileRow)).files => found # <<>>

\* the characters of the name of the directory above the one named `text`
ParentChars(text) ==
    LET last == CHOOSE k \in 1..Len(text) : text[k] = "/" /\ \A j \in (k + 1)..Len(text) : text[j] # "/"
    IN IF last = 1 THEN <<"/">> ELSE SubSeq(text, 1, last - 1)

\* C40: for every stored directory that is not deleted, list returns exactly its immediate
\* subdirectories and files that are not deleted.
C40_ListsImmediateChildren ==
    \A D \in store.directory :
        ~IsDeleted(D.flags)
           => LET L == list(store, "F", D.name)
              IN /\ {e.row : e \in L.directories}
                      = {r \in store.directory :
                            r.name # "/" /\ ParentChars(Chars(r.name)) = Chars(D.name)
                               /\ ~IsDeleted(r.flags)}
                 /\ L.files = {r \in store.file : r.directoryId = D.id /\ ~IsDeleted(r.flags)}

====
